---- MODULE Spec2Model ----
(***************************************************************************)
(* A model of the grounding-data pipeline:                                 *)
(*   - the quota allocator            (grounding/pipeline/generate.py),    *)
(*   - the multi-category distractor synthesizer                           *)
(*                    (grounding/format/detect_multi_object_formatter.py), *)
(*   - the prompt assembler           (grounding/pipeline/convert.py),     *)
(*   - the bbox jitter primitive      (_jitter_bbox),                      *)
(*   - the single-box and same-label formatters with random_bbox           *)
(*                    (grounding/format/detect_single_formatter.py,        *)
(*                     grounding/format/detect_multi_formatter.py,         *)
(*                     grounding/utils/bbox.py),                           *)
(*   - single calls of the pure helpers (_label_swap_variant,              *)
(*     check_eligible, _signature, _shuffle_choices).                      *)
(*                                                                         *)
(* Coordinates are integers counting ten-thousandths ("ticks"): 1.0 is     *)
(* 10000 ticks and the 3-decimal grid is the multiples of 10, so that      *)
(* rounding to 3 decimals is a real operation of the model.                *)
(***************************************************************************)
EXTENDS Integers, Sequences, FiniteSets, TLC

VARIABLES
    \* ---- quota allocator (generate.main) ----
    apc,            \* position of main: "idle", "loop", "after", "ok", "failed"
    counts,         \* counts[name]: lines written per question type
    targets,        \* targets[name]
    used_items,     \* set of consumed record keys
    handles,        \* handles[name]: the lines written to that output file
    nread,          \* number of input lines read so far
    missing,        \* the shortfall reported by the RuntimeError (or None)
    assignLog,      \* history: one entry per input line read
    \* ---- distractor synthesizer (DetectMultiObjectFormatter.format) ----
    fpc,            \* position of format
    fdata,          \* the record being formatted
    target_entries, \* the target EntrySet
    distractors,    \* the distractor list
    used_signatures,\* signatures seen so far
    attempts,       \* the counter of the loop being run: attempts, gentle_attempts,
                    \* heavy_attempts, fill_attempts in turn
    force_delta,    \* the escalation stage's max_delta
    selected,       \* selected_distractors
    selected_signatures,
    choices,        \* the display strings returned (empty until then)
    \* ---- prompt assembler (convert.main) ----
    cpc,            \* cpc[run]: "run", "done", "crashed"
    seedArg,        \* the --seed argument (None when absent)
    rng,            \* rng[run]: state of the run's random.Random
    inputs,         \* inputs[i]: the i-th input file (None when missing)
    cfile,          \* cfile[run]: index of the file being converted
    cline,          \* cline[run]: records of that file already consumed
    outputs,        \* outputs[run][i]: FinalExamples written for file i
    convLog,        \* convLog[run]: history of (record, outcome) per record
    \* ---- bbox jitter (_jitter_bbox) ----
    jpc,            \* "ready", "done"
    jin,            \* the input box
    jdelta,         \* max_delta
    jnoise,         \* the four random.uniform draws
    jout,           \* the returned box
    \* ---- one call of a pure helper (_label_swap_variant, check_eligible, ...) ----
    kpc,            \* "ready", "done"
    kin,            \* the argument
    kout,           \* the value returned
    \* ---- box formatters (DetectSingleFormatter.format, DetectMultiFormatter.format) ----
    spc,            \* position of format
    skind,          \* which formatter runs: "single" or "multi"
    sdata,          \* the record being formatted
    starget,        \* the chosen label and its boxes (bbox / target_bboxes)
    spool,          \* other_bboxes (single) or distractors (multi)
    sused,          \* used_signatures (multi)
    sattempts,      \* attempts (multi)
    scand,          \* the candidate being filled with random_bbox results
    scall,          \* the random_bbox call under way: its argument and recursion depth
    schoices        \* the choices returned (empty until then)

vars == <<apc, counts, targets, used_items, handles, nread, missing, assignLog,
          fpc, fdata, target_entries, distractors, used_signatures, attempts,
          force_delta, selected, selected_signatures, choices,
          cpc, seedArg, rng, inputs, cfile, cline, outputs, convLog,
          jpc, jin, jdelta, jnoise, jout,
          kpc, kin, kout,
          spc, skind, sdata, starget, spool, sused, sattempts, scand, scall, schoices>>

allocVars == <<apc, counts, targets, used_items, handles, nread, missing, assignLog>>
synthVars == <<fpc, fdata, target_entries, distractors, used_signatures, attempts,
               force_delta, selected, selected_signatures, choices>>
convVars  == <<cpc, seedArg, rng, inputs, cfile, cline, outputs, convLog>>
jitVars   == <<jpc, jin, jdelta, jnoise, jout>>
callVars  == <<kpc, kin, kout>>
boxVars   == <<spc, skind, sdata, starget, spool, sused, sattempts, scand, scall, schoices>>

None == "None"

(***************************************************************************)
(* Generic helpers.                                                        *)
(***************************************************************************)
Range(s) == {s[i] : i \in DOMAIN s}

Min(a, b) == IF a <= b THEN a ELSE b
Max(a, b) == IF a >= b THEN a ELSE b

RECURSIVE SumSeq(_)
SumSeq(s) == IF s = <<>> THEN 0 ELSE Head(s) + SumSeq(Tail(s))


\* The permutations of 1..n, as sequences.
Perms(n) == {p \in [1..n -> 1..n] : \A i, j \in 1..n : i # j => p[i] # p[j]}

(***************************************************************************)
(* Annotation records (GroundingData).  objs is the ordered label -> boxes *)
(* mapping, kept as a sequence of [name, bboxes] in insertion order.       *)
(***************************************************************************)
BoxCat  == <<1000, 1000, 4000, 4000>>
BoxDog1 == <<5000, 5000, 8000, 8000>>
BoxDog2 == <<0, 0, 2000, 2000>>

GroundingData(id, objs, n) ==
    [source_dataset |-> "ds", source_id |-> id, image |-> "img.jpg",
     objs |-> objs, num_objs |-> n,
     num_bbox |-> SumSeq([i \in DOMAIN objs |-> Len(objs[i].bboxes)])]

\* Scenario A of the specification: cat has one box, dog has two.
ObjsCatDog2 == << [name |-> "cat", bboxes |-> <<BoxCat>>],
                  [name |-> "dog", bboxes |-> <<BoxDog1, BoxDog2>>] >>
\* one label, one box
ObjsCat     == << [name |-> "cat", bboxes |-> <<BoxCat>>] >>
\* one label, two boxes
ObjsDog2    == << [name |-> "dog", bboxes |-> <<BoxDog1, BoxDog2>>] >>
\* two labels, only one of them with a box
ObjsCatNone == << [name |-> "cat", bboxes |-> <<BoxCat>>],
                  [name |-> "dog", bboxes |-> <<>>] >>
\* two labels, one with the same box twice and one without a box
ObjsCatTwiceNone == << [name |-> "cat", bboxes |-> <<BoxCat, BoxCat>>],
                       [name |-> "dog", bboxes |-> <<>>] >>
\* two labels, neither with a box
ObjsNone    == << [name |-> "cat", bboxes |-> <<>>],
                  [name |-> "dog", bboxes |-> <<>>] >>

(***************************************************************************)
(* Bounding boxes: rounding and jitter.                                    *)
(***************************************************************************)
\* 1.0, in ticks.
One == 10000
\* One step of the 3-decimal grid, in ticks.
GridStep == 10

\* round(coord, 3): the nearest grid point, a tie going to the even one.
Round3(v) ==
    LET q == v \div GridStep
        r == v % GridStep
    IN  IF 2 * r < GridStep THEN q * GridStep
        ELSE IF 2 * r > GridStep THEN (q + 1) * GridStep
        ELSE IF q % 2 = 0 THEN q * GridStep ELSE (q + 1) * GridStep

_round_bbox(bbox) == [i \in DOMAIN bbox |-> Round3(bbox[i])]

Clamp(v) == Max(0, Min(One, v))

OrderPairMut(a, b) == <<a, b>>
OrderPair(a, b) == IF a > b THEN <<b, a>> ELSE <<a, b>>

\* _jitter_bbox, given the four random.uniform(-max_delta, max_delta) draws.
_jitter_bbox(bbox, noise) ==
    LET nx1 == Clamp(bbox[1] + noise[1])
        ny1 == Clamp(bbox[2] + noise[2])
        nx2 == Clamp(bbox[3] + noise[3])
        ny2 == Clamp(bbox[4] + noise[4])
        xs  == OrderPair(nx1, nx2)
        ys  == OrderPair(ny1, ny2)
    IN  _round_bbox(<<xs[1], ys[1], xs[2], ys[2]>>)

\* Bound: random.uniform(-d, d) is sampled at the 2 * NoiseSteps + 1 evenly
\* spaced points of [-d, d].
NoiseSteps == 1
UniformDraws(d) == {(k * d) \div NoiseSteps : k \in (-NoiseSteps)..NoiseSteps}

\* Inputs of the jitter check: any four floats, in or out of [0,1], ordered or
\* inverted, on or off the grid; max_delta 0, the default 0.05 and 0.35.
CoordSamples == {0, 4996, 5004, 10300}
MaxDeltaSamples == {0, 500, 3500}

JitInit ==
    /\ jpc = "ready"
    /\ jin \in [1..4 -> CoordSamples]
    /\ jdelta \in MaxDeltaSamples
    /\ jnoise = None
    /\ jout = None

JitterCall ==
    /\ jpc = "ready"
    /\ \E noise \in [1..4 -> UniformDraws(jdelta)] :
          /\ jnoise' = noise
          /\ jout' = _jitter_bbox(jin, noise)
    /\ jpc' = "done"
    /\ UNCHANGED <<jin, jdelta>>

(***************************************************************************)
(* Entry sets: signature, display form, and the variant generators of      *)
(* detect_multi_object_formatter.py.  An entry is <<name, bbox>>.  A       *)
(* generator that draws at random is the set of the results it can return. *)
(***************************************************************************)
\* The labels in Python's string order.
LabelOrder == <<"cat", "dog">>
LabelIndex(name) == CHOOSE i \in DOMAIN LabelOrder : LabelOrder[i] = name

\* Python's tuple comparison (name, (x1, y1, x2, y2)) < (name', (...)).
RECURSIVE SeqLess(_, _)
SeqLess(a, b) ==
    IF a = <<>> THEN b # <<>>
    ELSE IF b = <<>> THEN FALSE
    ELSE IF Head(a) < Head(b) THEN TRUE
    ELSE IF Head(a) > Head(b) THEN FALSE
    ELSE SeqLess(Tail(a), Tail(b))

EntryLess(e, f) ==
    IF e[1] # f[1] THEN LabelIndex(e[1]) < LabelIndex(f[1]) ELSE SeqLess(e[2], f[2])

\* sorted(list): insertion sort.
RECURSIVE InsertSorted(_, _)
InsertSorted(e, sorted) ==
    IF sorted = <<>> THEN <<e>>
    ELSE IF EntryLess(Head(sorted), e) THEN <<Head(sorted)>> \o InsertSorted(e, Tail(sorted))
    ELSE <<e>> \o sorted
RECURSIVE SortEntries(_)
SortEntries(entries) ==
    IF entries = <<>> THEN <<>> ELSE InsertSorted(Head(entries), SortEntries(Tail(entries)))

_signature(entries) ==
    SortEntries([i \in DOMAIN entries |-> <<entries[i][1], _round_bbox(entries[i][2])>>])

\* _format_entries: the display string, as the sequence of its "name: [box]"
\* parts in generation order.
_format_entries(entries) ==
    [i \in DOMAIN entries |-> [name |-> entries[i][1], bbox |-> _round_bbox(entries[i][2])]]

Permute(x, p) == [i \in DOMAIN x |-> x[p[i]]]
\* random.shuffle(x): every order of x.
Shuffles(x) == {Permute(x, p) : p \in Perms(Len(x))}
\* random.sample(population, n): every ordered choice of n distinct positions.
OrderedSamples(n, size) ==
    {q \in [1..size -> 1..n] : \A i, j \in 1..size : i # j => q[i] # q[j]}

SwapPositions(x, i, j) == [x EXCEPT ![i] = x[j], ![j] = x[i]]

\* The four noise draws of one _jitter_bbox call the synthesizer's model
\* follows: none of them moves the box off its grid point, or all are max_delta.
JitterDraws(max_delta) == {<<0, 0, 0, 0>>, <<max_delta, max_delta, max_delta, max_delta>>}

Jittered(bbox, max_delta) == {_jitter_bbox(bbox, noise) : noise \in JitterDraws(max_delta)}

\* every entry's box jittered, each with its own draws
RECURSIVE JitterEach(_, _)
JitterEach(entries, max_delta) ==
    IF entries = <<>> THEN {<<>>}
    ELSE {<< <<Head(entries)[1], box>> >> \o rest :
             box \in Jittered(Head(entries)[2], max_delta),
             rest \in JitterEach(Tail(entries), max_delta)}

\* _aggressive_variant(entries, max_delta)
_aggressive_variant(entries, max_delta) ==
    UNION {Shuffles(variant) : variant \in JitterEach(entries, max_delta)}

\* ---- _label_swap_variant ----
DifferentCategoryPairs(variant) ==
    {pr \in (DOMAIN variant) \X (DOMAIN variant) :
        pr[1] < pr[2] /\ variant[pr[1]][1] # variant[pr[2]][1]}

SwapLabelsMut(variant, pr) == SwapPositions(variant, pr[1], pr[2])
SwapLabels(variant, pr) ==
    [variant EXCEPT ![pr[1]] = <<variant[pr[2]][1], variant[pr[1]][2]>>,
                    ![pr[2]] = <<variant[pr[1]][1], variant[pr[2]][2]>>]

RECURSIVE ApplySwaps(_, _)
ApplySwaps(variant, swap_pairs) ==
    IF swap_pairs = <<>> THEN variant
    ELSE ApplySwaps(SwapLabels(variant, Head(swap_pairs)), Tail(swap_pairs))

\* every sequence of size distinct members of S
SampleSeqs(S, size) ==
    {q \in [1..size -> S] : \A i, j \in 1..size : i # j => q[i] # q[j]}

_label_swap_variant(entries) ==
    IF Len(entries) < 2 THEN {entries}
    ELSE LET pairs == DifferentCategoryPairs(entries) IN
         IF pairs = {} THEN Shuffles(entries)
         ELSE UNION { Shuffles(ApplySwaps(entries, sp)) :
                        sp \in UNION {SampleSeqs(pairs, Min(r, Cardinality(pairs))) :
                                        r \in 1..2} }

\* ---- pools ----
\* category_pool: the labels with at least one box, and their boxes.
CategoryPool(data) == SelectSeq(data.objs, LAMBDA o : o.bboxes # <<>>)
\* category_pool.get(name, [])
PoolOf(category_pool, name) ==
    IF \E i \in DOMAIN category_pool : category_pool[i].name = name
    THEN category_pool[CHOOSE i \in DOMAIN category_pool : category_pool[i].name = name].bboxes
    ELSE <<>>
\* extra_pool: every (name, bbox) of category_pool
RECURSIVE ExtraPool(_)
ExtraPool(category_pool) ==
    IF category_pool = <<>> THEN <<>>
    ELSE [k \in DOMAIN Head(category_pool).bboxes |->
             <<Head(category_pool).name, Head(category_pool).bboxes[k]>>]
         \o ExtraPool(Tail(category_pool))

Alternatives(category_pool, name, bbox) ==
    {c \in Range(PoolOf(category_pool, name)) : c # bbox}

\* round(x) for x = num / den, a tie going to the even integer.
RoundDiv(num, den) ==
    LET q == num \div den
        r == num % den
    IN  IF 2 * r < den THEN q
        ELSE IF 2 * r > den THEN q + 1
        ELSE IF q % 2 = 0 THEN q ELSE q + 1

\* Values of random.random() / random.uniform(0.3, 0.6), in hundredths.
ActionDraws == {25, 70, 90}
FractionDraws == {30, 45, 60}

\* ---- _mutate_entries ----
\* One chosen entry of _mutate_entries, rewritten.
MutatedEntry(entry, category_pool, extra_pool) ==
    LET name == entry[1]
        bbox == entry[2]
        alternatives == Alternatives(category_pool, name, bbox)
        substituted == {<<name, alt>> : alt \in alternatives}
        jittered == {<<name, box>> : box \in Jittered(bbox, 500)}
    IN  UNION {
          IF action < 50 /\ alternatives # {} THEN substituted
          ELSE IF action < 85 THEN jittered
          ELSE IF extra_pool # <<>>
               THEN UNION { IF alt[1] = name /\ alternatives # {}
                            THEN substituted
                            ELSE {<<alt[1], box>> : box \in Jittered(alt[2], 500)} :
                            alt \in Range(extra_pool) }
               ELSE jittered
          : action \in ActionDraws }

RECURSIVE MutateAt(_, _, _, _)
MutateAt(entries, idxs, category_pool, extra_pool) ==
    IF idxs = <<>> THEN {entries}
    ELSE UNION { MutateAt([entries EXCEPT ![Head(idxs)] = changed], Tail(idxs),
                          category_pool, extra_pool) :
                   changed \in MutatedEntry(entries[Head(idxs)], category_pool, extra_pool) }

\* with probability 0.4 two positions are exchanged
MaybeSwapped(entries) ==
    {entries} \cup
    (IF Len(entries) > 1
     THEN {SwapPositions(entries, pr[1], pr[2]) :
             pr \in {q \in (DOMAIN entries) \X (DOMAIN entries) : q[1] # q[2]}}
     ELSE {})

_mutate_entries(base_entries, category_pool, extra_pool) ==
    LET target_len == Len(base_entries) IN
    IF target_len = 0 THEN {base_entries}
    ELSE UNION { UNION { UNION {Shuffles(swapped) : swapped \in MaybeSwapped(mutated)} :
                           mutated \in UNION { MutateAt(base_entries, idxs, category_pool,
                                                        extra_pool) :
                               idxs \in OrderedSamples(target_len,
                                   Max(1, Min(target_len,
                                              RoundDiv(change_fraction * target_len, 100)))) } } :
                   change_fraction \in FractionDraws }

\* ---- _fallback_entries ----
_fallback_entries(base_entries, category_pool) ==
    IF base_entries = <<>> THEN {base_entries}
    ELSE UNION {
           LET name == base_entries[idx][1]
               bbox == base_entries[idx][2]
               alternatives == Alternatives(category_pool, name, bbox)
               changed == (IF alternatives # {}
                           THEN {<<name, alt>> : alt \in alternatives}
                           ELSE {})
                          \cup {<<name, box>> : box \in Jittered(bbox, 800)}
           IN  UNION { UNION { Shuffles(swapped) :
                                 swapped \in {[base_entries EXCEPT ![idx] = e]} \cup
                                    (IF Len(base_entries) > 1
                                     THEN {SwapPositions([base_entries EXCEPT ![idx] = e], idx, j) :
                                             j \in DOMAIN base_entries}
                                     ELSE {}) } :
                         e \in changed }
           : idx \in DOMAIN base_entries }

\* ---- the target of format ----
\* the entries of one chosen name: random.sample(bboxes, min(len(bboxes), 3))
EntriesOf(obj) ==
    {[k \in DOMAIN q |-> <<obj.name, obj.bboxes[q[k]]>>] :
        q \in OrderedSamples(Len(obj.bboxes), Min(Len(obj.bboxes), 3))}

RECURSIVE EntriesOfAll(_)
EntriesOfAll(chosen) ==
    IF chosen = <<>> THEN {<<>>}
    ELSE {first \o rest : first \in EntriesOf(Head(chosen)), rest \in EntriesOfAll(Tail(chosen))}

\* target_entries: every outcome of the sampling of names and boxes
TargetChoices(data) ==
    LET candidate_objs == SelectSeq(data.objs, LAMBDA o : o.bboxes # <<>>)
        max_categories == Min(6, Len(candidate_objs))
        sizes == IF max_categories > 2 THEN 2..max_categories ELSE {max_categories}
    IN  UNION { UNION { EntriesOfAll([k \in DOMAIN q |-> candidate_objs[q[k]]]) :
                          q \in OrderedSamples(Len(candidate_objs), sample_size) } :
                  sample_size \in sizes }

\* ---- the cascade's control ----
MainAttempts == 300
GentleAttempts == 100
HeavyAttempts == 20
FillAttempts == 50

\* force_delta is a binary float: ticks is its value to four decimals, err
\* its excess over the double nearest to that decimal, in units in the last
\* place.  0.12 + 0.04 is 0.16 and 0.16 + 0.04 is 0.2, but 0.2 + 0.04 is
\* 0.24000000000000002.
ForceDeltaInit == [ticks |-> 1200, err |-> 0]
ForceDeltaNext(fd) ==
    IF fd.ticks = 2000 /\ fd.err = 0 THEN [ticks |-> 2400, err |-> 1]
    ELSE [ticks |-> fd.ticks + 400, err |-> fd.err]
\* force_delta <= 0.24
ForceDeltaInRange(fd) == fd.ticks < 2400 \/ (fd.ticks = 2400 /\ fd.err <= 0)

NoDelta == [ticks |-> 0, err |-> 0]

\* Where control rests after the loop tests that fail are passed: the
\* position, the counter of the loop entered and force_delta.  n is
\* len(distractors).
SettleMut(pc, att, fd, n) ==
    CASE pc = "swap_mutate" ->
           IF att < MainAttempts THEN [pc |-> pc, attempts |-> att, force_delta |-> fd]
           ELSE [pc |-> "gentle", attempts |-> 0, force_delta |-> fd]
      [] pc = "gentle" ->
           IF att < GentleAttempts THEN [pc |-> pc, attempts |-> att, force_delta |-> fd]
           ELSE [pc |-> "escalate", attempts |-> 0, force_delta |-> ForceDeltaInit]
      [] pc = "escalate" ->
           IF ForceDeltaInRange(fd) THEN [pc |-> pc, attempts |-> att, force_delta |-> fd]
           ELSE [pc |-> "heavy", attempts |-> 0, force_delta |-> NoDelta]
      [] pc = "heavy" ->
           IF att < HeavyAttempts THEN [pc |-> pc, attempts |-> att, force_delta |-> fd]
           ELSE IF n = 0 THEN [pc |-> "last_resort", attempts |-> 0, force_delta |-> fd]
           ELSE [pc |-> "select", attempts |-> 0, force_delta |-> fd]
RECURSIVE Settle(_, _, _, _)
Settle(pc, att, fd, n) ==
    CASE pc = "swap_mutate" ->
           IF n < 3 /\ att < MainAttempts THEN [pc |-> pc, attempts |-> att, force_delta |-> fd]
           ELSE Settle("gentle", 0, fd, n)
      [] pc = "gentle" ->
           IF n < 3 /\ att < GentleAttempts THEN [pc |-> pc, attempts |-> att, force_delta |-> fd]
           ELSE Settle("escalate", 0, ForceDeltaInit, n)
      [] pc = "escalate" ->
           IF n < 3 /\ ForceDeltaInRange(fd) THEN [pc |-> pc, attempts |-> att, force_delta |-> fd]
           ELSE Settle("heavy", 0, NoDelta, n)
      [] pc = "heavy" ->
           IF n < 3 /\ att < HeavyAttempts THEN [pc |-> pc, attempts |-> att, force_delta |-> fd]
           ELSE IF n = 0 THEN [pc |-> "last_resort", attempts |-> 0, force_delta |-> fd]
           ELSE [pc |-> "select", attempts |-> 0, force_delta |-> fd]

\* The same for the two filling loops; n is len(selected_distractors).
NeedsForceFillMut(n) == FALSE
NeedsForceFill(n) == n < 3

SettleFill(pc, att, n) ==
    IF pc = "fill" /\ n < 3 /\ att < FillAttempts THEN [pc |-> "fill", attempts |-> att]
    ELSE IF NeedsForceFill(n) THEN [pc |-> "force_fill", attempts |-> 0]
    ELSE [pc |-> "return", attempts |-> 0]

(***************************************************************************)
(* DetectMultiObjectFormatter.format, one action per loop iteration.       *)
(***************************************************************************)
\* The records format is run on: two labels of which one has two equal boxes
\* and the other none (apart from the order of its two entries the target has
\* one alternative, the one with a box moved); two labels of which one has a
\* box; two labels without boxes.
SynthRecords == {GroundingData("1", ObjsCatTwiceNone, 2), GroundingData("1", ObjsCatNone, 2),
                 GroundingData("1", ObjsNone, 2)}

\* Values of random.random() at line 168: one below 0.8, one above.
BranchDraws == {40, 90}

SynthInit ==
    /\ fpc = "start"
    /\ fdata \in SynthRecords
    /\ target_entries = <<>>
    /\ distractors = <<>>
    /\ used_signatures = {}
    /\ attempts = 0
    /\ force_delta = NoDelta
    /\ selected = <<>>
    /\ selected_signatures = {}
    /\ choices = <<>>

\* The candidate joins the distractors unless its signature was seen.
AddUnseen(candidate, dists, used) ==
    IF _signature(candidate) \notin used
    THEN [distractors |-> Append(dists, candidate),
          used_signatures |-> used \cup {_signature(candidate)}]
    ELSE [distractors |-> dists, used_signatures |-> used]

\* add_candidate, and the same test written out in the next two loops
add_candidate(candidate, dists, used, target_len) ==
    IF Len(candidate) # target_len
    THEN [distractors |-> dists, used_signatures |-> used]
    ELSE AddUnseen(candidate, dists, used)

\* selected_distractors[:3]
FirstThree(sel) == SubSeq(sel, 1, Min(3, Len(sel)))

\* The state after one iteration of a loop of the cascade.
CascadeStep(added, att, fd) ==
    LET ctl == Settle(fpc, att, fd, Len(added.distractors)) IN
    /\ distractors' = added.distractors
    /\ used_signatures' = added.used_signatures
    /\ fpc' = ctl.pc
    /\ attempts' = ctl.attempts
    /\ force_delta' = ctl.force_delta
    /\ UNCHANGED <<fdata, target_entries, selected, selected_signatures, choices>>

\* The state after one iteration of a filling loop.
FillStep(pc, att, sel, sigs) ==
    LET ctl == SettleFill(pc, att, Len(sel)) IN
    /\ selected' = sel
    /\ selected_signatures' = sigs
    /\ fpc' = ctl.pc
    /\ attempts' = ctl.attempts
    /\ UNCHANGED <<fdata, target_entries, distractors, used_signatures, force_delta, choices>>

\* random.sample(distractors, 3) if len(distractors) >= 3 else distractors[:]
SampleThree(dists) ==
    IF Len(dists) >= 3
    THEN {Permute(dists, q) : q \in OrderedSamples(Len(dists), 3)}
    ELSE {dists}

\* Lines 120-165: the target is drawn and the first loop is entered.
ChooseTarget ==
    /\ fpc = "start"
    /\ \E target \in TargetChoices(fdata) :
          LET ctl == Settle("swap_mutate", 0, NoDelta, 0) IN
          /\ target_entries' = target
          /\ distractors' = <<>>
          /\ used_signatures' = {_signature(target)}
          /\ fpc' = ctl.pc
          /\ attempts' = ctl.attempts
          /\ force_delta' = ctl.force_delta
    /\ UNCHANGED <<fdata, selected, selected_signatures, choices>>

\* Lines 166-175.
SwapMutateAttempt ==
    /\ fpc = "swap_mutate"
    /\ \E draw \in BranchDraws :
       \E candidate \in (IF draw < 80
                         THEN _label_swap_variant(target_entries)
                         ELSE _mutate_entries(target_entries, CategoryPool(fdata),
                                              ExtraPool(CategoryPool(fdata)))) :
          CascadeStep(add_candidate(candidate, distractors, used_signatures,
                                    Len(target_entries)),
                      attempts + 1, force_delta)

\* Lines 179-186.
GentleAttempt ==
    /\ fpc = "gentle"
    /\ \E candidate \in _fallback_entries(target_entries, CategoryPool(fdata)) :
          CascadeStep(add_candidate(candidate, distractors, used_signatures,
                                    Len(target_entries)),
                      attempts + 1, force_delta)

\* Lines 189-196.
EscalateAttempt ==
    /\ fpc = "escalate"
    /\ \E candidate \in _aggressive_variant(target_entries, force_delta.ticks) :
          CascadeStep(add_candidate(candidate, distractors, used_signatures,
                                    Len(target_entries)),
                      attempts, ForceDeltaNext(force_delta))

\* Lines 199-205.
HeavyAttempt ==
    /\ fpc = "heavy"
    /\ \E candidate \in _aggressive_variant(target_entries, 3000) :
          CascadeStep(AddUnseen(candidate, distractors, used_signatures),
                      attempts + 1, force_delta)

\* Lines 207-210: no distractor was found, one is taken unconditionally.
LastResort ==
    /\ fpc = "last_resort"
    /\ \E candidate \in _aggressive_variant(target_entries, 3000) :
          /\ distractors' = Append(distractors, candidate)
          /\ used_signatures' = used_signatures \cup {_signature(candidate)}
    /\ fpc' = "select"
    /\ UNCHANGED <<fdata, target_entries, attempts, force_delta, selected,
                   selected_signatures, choices>>

\* Lines 212-218.
Select ==
    /\ fpc = "select"
    /\ \E sel \in SampleThree(distractors) :
          FillStep("fill", 0, sel,
                   {_signature(sel[i]) : i \in DOMAIN sel} \cup {_signature(target_entries)})

\* Lines 219-226.
FillAttempt ==
    /\ fpc = "fill"
    /\ \E generated \in _aggressive_variant(target_entries, 3000) :
          IF _signature(generated) \in selected_signatures
          THEN FillStep("fill", attempts + 1, selected, selected_signatures)
          ELSE FillStep("fill", attempts, Append(selected, generated),
                        selected_signatures \cup {_signature(generated)})

\* Lines 228-231: the rest is filled unconditionally.
ForceFill ==
    /\ fpc = "force_fill"
    /\ \E generated \in _aggressive_variant(target_entries, 3500) :
          FillStep("force_fill", 0, Append(selected, generated),
                   selected_signatures \cup {_signature(generated)})

\* Lines 233-245: the bundle is built and format returns; its locals are gone.
Return ==
    /\ fpc = "return"
    /\ choices' = <<_format_entries(target_entries)>>
                  \o [i \in DOMAIN FirstThree(selected) |->
                         _format_entries(FirstThree(selected)[i])]
    /\ fpc' = "done"
    /\ target_entries' = <<>>
    /\ distractors' = <<>>
    /\ used_signatures' = {}
    /\ attempts' = 0
    /\ force_delta' = NoDelta
    /\ selected' = <<>>
    /\ selected_signatures' = {}
    /\ UNCHANGED fdata

(***************************************************************************)
(* Eligibility gates (check_eligible of the three formatters).  draw is    *)
(* the value of random.random() in hundredths.                             *)
(***************************************************************************)
SingleCheckEligible(data) ==
    \E i \in DOMAIN data.objs : Len(data.objs[i].bboxes) = 1

MultiCheckEligible(data, draw) ==
    IF \E i \in DOMAIN data.objs : Len(data.objs[i].bboxes) > 1
    THEN TRUE
    ELSE draw < 10

MultiObjectCheckEligible(data) == data.num_objs >= 2

check_eligible(name, data, draw) ==
    CASE name = "detect_single"       -> SingleCheckEligible(data)
      [] name = "detect_multi"        -> MultiCheckEligible(data, draw)
      [] name = "detect_multi_object" -> MultiObjectCheckEligible(data)

(***************************************************************************)
(* Quota allocator: generate.main.                                         *)
(***************************************************************************)
\* Bounds of the allocator's model.
MaxStream == 3
MaxTarget == 2

formatter_specs == <<"detect_single", "detect_multi", "detect_multi_object">>
SpecNames == Range(formatter_specs)

\* The input lines the model draws from: three keys, three record shapes.
SourceIds == {"1", "2", "3"}
AllocObjs == {ObjsCatDog2, ObjsCat, ObjsDog2}
AllocRecords == {GroundingData(id, o, Len(o)) : id \in SourceIds, o \in AllocObjs}
\* Values of random.random(), in hundredths: one below 0.1, one above.
RandomDraws == {5, 50}

UniqueId(data) == data.source_dataset \o ":" \o data.source_id

AlreadyUsedMut(unique_id, used) == FALSE
AlreadyUsed(unique_id, used) == unique_id \in used

\* The for/break loop over formatter_specs: the index of the first spec whose
\* quota is unmet and whose gate accepts, 0 when there is none.
AssignedSpecAnyMut(data, draw, cnts, tgts) ==
    LET ok == {i \in DOMAIN formatter_specs : check_eligible(formatter_specs[i], data, draw)}
    IN  IF ok = {} THEN 0 ELSE CHOOSE i \in ok : \A j \in ok : i <= j
AssignedSpecMut(data, draw, cnts, tgts) ==
    LET ok == {i \in DOMAIN formatter_specs :
                  /\ cnts[formatter_specs[i]] < tgts[formatter_specs[i]]
                  /\ check_eligible(formatter_specs[i], data, draw)}
    IN  IF ok = {} THEN 0 ELSE CHOOSE i \in ok : \A j \in ok : i >= j
AssignedSpec(data, draw, cnts, tgts) ==
    LET ok == {i \in DOMAIN formatter_specs :
                  /\ ~(cnts[formatter_specs[i]] >= tgts[formatter_specs[i]])
                  /\ check_eligible(formatter_specs[i], data, draw)}
    IN  IF ok = {} THEN 0 ELSE CHOOSE i \in ok : \A j \in ok : i <= j

\* The provenance of the line formatter.format(data) produces.
OutputLine(name, data) ==
    [source_dataset |-> data.source_dataset, source_id |-> data.source_id,
     image |-> data.image, question_type |-> name]

AllMetMut(cnts, tgts) == \E name \in DOMAIN cnts : cnts[name] >= tgts[name]
AllMet(cnts, tgts) == \A name \in DOMAIN cnts : cnts[name] >= tgts[name]

ShortfallMut(cnts, tgts) ==
    [name \in {n \in DOMAIN cnts : cnts[n] <= tgts[n]} |-> tgts[name] - cnts[name]]
Shortfall(cnts, tgts) ==
    [name \in {n \in DOMAIN cnts : cnts[n] < tgts[n]} |-> tgts[name] - cnts[name]]

AllocInit ==
    /\ apc = "loop"
    /\ counts = [name \in SpecNames |-> 0]
    /\ targets \in {[name \in SpecNames |-> t] : t \in 1..MaxTarget}
    /\ used_items = {}
    /\ handles = [name \in SpecNames |-> <<>>]
    /\ nread = 0
    /\ missing = None
    /\ assignLog = <<>>

\* One iteration of `for line in source_file`.
ProcessLine(data, draw) ==
    /\ apc = "loop"
    /\ nread < MaxStream
    /\ nread' = nread + 1
    /\ UNCHANGED <<targets, missing>>
    /\ LET unique_id == UniqueId(data)
           k == AssignedSpec(data, draw, counts, targets)
       IN  IF AlreadyUsed(unique_id, used_items)
           THEN /\ assignLog' = Append(assignLog,
                        [data |-> data, draw |-> draw, before |-> counts,
                         skipped |-> TRUE, assigned |-> None])
                /\ UNCHANGED <<apc, counts, used_items, handles>>
           ELSE IF k = 0
           THEN /\ assignLog' = Append(assignLog,
                        [data |-> data, draw |-> draw, before |-> counts,
                         skipped |-> FALSE, assigned |-> None])
                /\ apc' = IF AllMet(counts, targets) THEN "after" ELSE "loop"
                /\ UNCHANGED <<counts, used_items, handles>>
           ELSE LET name == formatter_specs[k] IN
                /\ handles' = [handles EXCEPT ![name] = Append(@, OutputLine(name, data))]
                /\ counts' = [counts EXCEPT ![name] = @ + 1]
                /\ used_items' = used_items \cup {unique_id}
                /\ assignLog' = Append(assignLog,
                        [data |-> data, draw |-> draw, before |-> counts,
                         skipped |-> FALSE, assigned |-> name])
                /\ apc' = IF AllMet(counts', targets) THEN "after" ELSE "loop"

\* The input file ends.
EndOfInput ==
    /\ apc = "loop"
    /\ apc' = "after"
    /\ UNCHANGED <<counts, targets, used_items, handles, nread, missing, assignLog>>

\* After the loop: compute `missing`, raise or report.
Finish ==
    /\ apc = "after"
    /\ LET m == Shortfall(counts, targets) IN
         IF DOMAIN m # {}
         THEN apc' = "failed" /\ missing' = m
         ELSE apc' = "ok" /\ missing' = None
    /\ UNCHANGED <<counts, targets, used_items, handles, nread, assignLog>>

(***************************************************************************)
(* Prompt assembler: convert.py.  A string the code builds from parts is   *)
(* kept as the sequence of its parts (tokens); a multi-line string as the  *)
(* sequence of its lines.                                                  *)
(***************************************************************************)
DATASET_NAMES == <<"detect_single", "detect_multi", "detect_multi_object">>

OPTION_LETTERS ==
    <<"A", "B", "C", "D", "E", "F", "G", "H", "I", "J", "K", "L", "M",
      "N", "O", "P", "Q", "R", "S", "T", "U", "V", "W", "X", "Y", "Z">>
LowerLetters ==
    <<"a", "b", "c", "d", "e", "f", "g", "h", "i", "j", "k", "l", "m",
      "n", "o", "p", "q", "r", "s", "t", "u", "v", "w", "x", "y", "z">>

\* letter.lower()
Lower(letter) ==
    LowerLetters[CHOOSE i \in DOMAIN OPTION_LETTERS : OPTION_LETTERS[i] = letter]

\* sep.join(parts), as a string.
RECURSIVE Join(_, _)
Join(parts, sep) ==
    IF parts = <<>> THEN ""
    ELSE IF Len(parts) = 1 THEN parts[1]
    ELSE parts[1] \o sep \o Join(Tail(parts), sep)

\* str.strip() / str.rstrip() on the question texts the model uses.
Strip(text) ==
    CASE text = " Where is the cat? " -> "Where is the cat?"
      [] OTHER -> text
RStrip(text) ==
    CASE text = " Where is the cat? " -> " Where is the cat?"
      [] OTHER -> text

\* ---- the seeded generator (random.Random) ----
\* A deterministic generator: every draw is a function of the state.
RngStep(st) == (st * 165 + 43) % 1024

NewRngMut(seed, entropy) == RngStep(entropy)
\* random.Random(args.seed): seeded from the argument, from the operating
\* system's entropy when the argument is absent.
NewRng(seed, entropy) ==
    IF seed.given THEN RngStep(seed.val * 37 + 11) ELSE RngStep(entropy)

\* rng._randbelow(n): the value drawn and the generator's next state.
RandBelow(st, n) == [val |-> (RngStep(st) \div 4) % n, st |-> RngStep(st)]

\* rng.shuffle(x): for i in reversed(range(1, len(x))): swap x[i], x[randbelow(i+1)].
RECURSIVE ShuffleFrom(_, _, _)
ShuffleFrom(x, i, st) ==
    IF i < 2 THEN [seq |-> x, st |-> st]
    ELSE LET r == RandBelow(st, i)
             j == r.val + 1
         IN  ShuffleFrom([x EXCEPT ![i] = x[j], ![j] = x[i]], i - 1, r.st)
ShuffleMut(x, st) == [seq |-> [i \in DOMAIN x |-> x[1]], st |-> st]
Shuffle(x, st) == ShuffleFrom(x, Len(x), st)

TooManyChoices(chs) == Len(chs) > Len(OPTION_LETTERS)

CorrectPositionMut(indexed) == 1
\* the position whose original index is 0
CorrectPosition(indexed) == CHOOSE pos \in DOMAIN indexed : indexed[pos][1] = 0

\* _shuffle_choices(choices, rng)
_shuffle_choices(chs, st) ==
    IF TooManyChoices(chs)
    THEN [ok |-> FALSE, error |-> "Too many choices to assign unique letters"]
    ELSE LET sh == Shuffle([i \in DOMAIN chs |-> <<i - 1, chs[i]>>], st)
             indexed == sh.seq
         IN  IF ~\E pos \in DOMAIN indexed : indexed[pos][1] = 0
             THEN [ok |-> FALSE,
                   error |-> "Unable to determine correct answer after shuffling"]
             ELSE [ok |-> TRUE,
                   option_pairs |-> [pos \in DOMAIN indexed |->
                                        <<OPTION_LETTERS[pos], indexed[pos][2]>>],
                   correct_letter |-> OPTION_LETTERS[CorrectPosition(indexed)],
                   st |-> sh.st]

_letter_instruction(option_pairs) ==
    LET letters == [i \in DOMAIN option_pairs |-> option_pairs[i][1]]
    IN  IF Len(letters) = 4 THEN "A/B/C/D" ELSE Join(letters, "/")

_instruction_context(option_pairs) ==
    LET letters == [i \in DOMAIN option_pairs |-> option_pairs[i][1]]
    IN  [letters |-> letters,
         descriptor |-> _letter_instruction(option_pairs),
         lowercase_descriptor |-> Join([i \in DOMAIN letters |-> Lower(letters[i])], "/")]

\* ---- templates: each returns the prompt's lines ----
RECURSIVE InlineOptions(_)
InlineOptions(option_pairs) ==
    IF option_pairs = <<>> THEN <<>>
    ELSE LET hd == <<option_pairs[1][1], ") ", option_pairs[1][2]>>
         IN  IF Len(option_pairs) = 1 THEN hd
             ELSE hd \o <<" ">> \o InlineOptions(Tail(option_pairs))

_template_block(question, option_pairs, instruction_lines) ==
    << <<RStrip(question)>>, <<"">>, <<"Options:">> >>
    \o [i \in DOMAIN option_pairs |-> <<option_pairs[i][1], ". ", option_pairs[i][2]>>]
    \o (IF instruction_lines # <<>> THEN << <<"">> >> \o instruction_lines ELSE <<>>)

_template_inline(question, option_pairs, instruction_lines) ==
    << <<RStrip(question)>> >>
    \o (IF instruction_lines # <<>> THEN << <<"">> >> \o instruction_lines ELSE <<>>)
    \o << <<"">>, <<"Options:">>, InlineOptions(option_pairs) >>

_template_steps(question, option_pairs, instruction_lines) ==
    << <<RStrip(question)>>, <<"">>, <<"Consider these candidates:">> >>
    \o [i \in DOMAIN option_pairs |->
           <<"- Option ", option_pairs[i][1], ": ", option_pairs[i][2]>>]
    \o (IF instruction_lines # <<>> THEN << <<"">> >> \o instruction_lines ELSE <<>>)

NumTemplates == 3
ApplyTemplate(t, question, option_pairs, instruction_lines) ==
    CASE t = 1 -> _template_block(question, option_pairs, instruction_lines)
      [] t = 2 -> _template_inline(question, option_pairs, instruction_lines)
      [] t = 3 -> _template_steps(question, option_pairs, instruction_lines)

\* ---- response styles (the source's backquotes are written ' here) ----
_style_letter_only(ctx) ==
    << <<"Choose the best option from the list.">>,
       <<"Respond with only the letter (", ctx.descriptor, ").">> >>
_style_answer_prefix(ctx) ==
    << <<"Select the most accurate choice.">>,
       <<"Reply using the exact format 'Answer: X' where X is one of ",
         ctx.descriptor, ".">>,
       <<"No additional text is allowed.">> >>
_style_final_answer(ctx) ==
    << <<"Pick the option that fits best.">>,
       <<"Return it as 'Final answer: X' using one of ", ctx.descriptor, ".">> >>
_style_lowercase(ctx) ==
    << <<"Determine the correct candidate.">>,
       <<"Respond in lowercase using only ", ctx.lowercase_descriptor, ".">> >>
_style_option_prefix(ctx) ==
    << <<"Choose the most suitable option.">>,
       <<"Reply as 'Option X' where X is one of ", ctx.descriptor, ".">>,
       <<"Do not include any other words.">> >>

NumStyles == 5
InstructionBuilder(style, ctx) ==
    CASE style = 1 -> _style_letter_only(ctx)
      [] style = 2 -> _style_answer_prefix(ctx)
      [] style = 3 -> _style_final_answer(ctx)
      [] style = 4 -> _style_lowercase(ctx)
      [] style = 5 -> _style_option_prefix(ctx)

AnswerBuilder(style, letter) ==
    CASE style = 1 -> letter
      [] style = 2 -> "Answer: " \o letter
      [] style = 3 -> "Final answer: " \o letter
      [] style = 4 -> Lower(letter)
      [] style = 5 -> "Option " \o letter

\* ---- records (dicts): a key the dict lacks is not in the DOMAIN ----
Has(record, key) == key \in DOMAIN record

_ensure_list(image_field) ==
    IF image_field.kind = "str" THEN <<image_field.val>> ELSE image_field.val

\* int(str(raw_id)) on the ids the model uses: 0 stands for ValueError
IntOfStr(text) == CASE text = "12" -> 12 [] OTHER -> 0
ConvertedId(record) ==
    IF ~Has(record, "source_id") THEN [kind |-> "str", val |-> "None"]
    ELSE IF record.source_id.kind = "int" THEN record.source_id
    ELSE IF IntOfStr(record.source_id.val) # 0
         THEN [kind |-> "int", val |-> IntOfStr(record.source_id.val)]
         ELSE record.source_id

ChoicesMissingOrEmpty(record) ==
    IF Has(record, "choices") THEN record.choices = <<>> ELSE TRUE

TooFewChoicesMut(chs) == FALSE
TooFewChoices(chs) == Len(chs) < 2

ImageListMut(record) ==
    IF Has(record, "image") THEN _ensure_list(record.image) ELSE <<"img.jpg">>
\* _ensure_list(record.get("image", []))
ImageList(record) ==
    IF Has(record, "image") THEN _ensure_list(record.image) ELSE <<>>

\* _convert_record(record, rng): the FinalExample and the generator's state
\* after the call, or the ValueError raised.
_convert_record(record, st) ==
    IF ChoicesMissingOrEmpty(record)
    THEN [ok |-> FALSE, error |-> "Record is missing 'choices'"]
    ELSE IF TooFewChoices(record.choices)
    THEN [ok |-> FALSE,
          error |-> "Need at least two choices to build a multiple-choice prompt"]
    ELSE LET sh == _shuffle_choices(record.choices, st) IN
      IF ~sh.ok THEN sh
      ELSE LET question == Strip(IF Has(record, "question") THEN record.question ELSE "")
               context == _instruction_context(sh.option_pairs)
               r1 == RandBelow(sh.st, NumStyles)
               style == r1.val + 1
               instruction_lines == InstructionBuilder(style, context)
               r2 == RandBelow(r1.st, NumTemplates)
               template == r2.val + 1
               human_prompt == ApplyTemplate(template, question, sh.option_pairs,
                                             instruction_lines)
               assistant_value == AnswerBuilder(style, sh.correct_letter)
               image_list == ImageList(record)
           IN  IF instruction_lines = <<>>
               THEN [ok |-> FALSE, error |-> "Instruction builder returned no content"]
               ELSE [ok |-> TRUE,
                     example |-> [image |-> image_list,
                                  id |-> ConvertedId(record),
                                  conversations |->
                                     << [from |-> "human", value |-> human_prompt],
                                        [from |-> "gpt", value |-> assistant_value] >>,
                                  image_count |-> Len(image_list)],
                     st |-> r2.st]

\* ---- the conversion run: convert.main and _convert_file ----
\* Bound: the seeds 0..MaxSeed are tried for --seed.
MaxSeed == 5
SeedArgs == {[given |-> FALSE, val |-> 0]} \cup {[given |-> TRUE, val |-> n] : n \in 0..MaxSeed}
\* What the operating system's entropy may seed an unseeded generator with.
EntropySamples == {3, 8}

\* Two executions of main on the same arguments and input files.
Runs == {1, 2}

ChoiceTexts ==
    <<"t0", "t1", "t2", "t3", "t4", "t5", "t6", "t7", "t8", "t9", "t10", "t11", "t12", "t13",
      "t14", "t15", "t16", "t17", "t18", "t19", "t20", "t21", "t22", "t23", "t24", "t25", "t26">>
Choices(n) == SubSeq(ChoiceTexts, 1, n)

StrImage  == [kind |-> "str", val |-> "img.jpg"]
ListImage == [kind |-> "list", val |-> <<"a.jpg", "b.jpg">>]

RecGood4 ==
    [source_id |-> [kind |-> "str", val |-> "12"], image |-> StrImage,
     question |-> " Where is the cat? ", choices |-> Choices(4)]
RecGood2 ==
    [source_id |-> [kind |-> "int", val |-> 7], image |-> ListImage,
     question |-> "Pick the box.", choices |-> Choices(2)]
RecDup3 ==
    [source_id |-> [kind |-> "str", val |-> "abc"], image |-> StrImage,
     question |-> "Pick the box.", choices |-> <<"t0", "t1", "t0">>]
RecGood26 ==
    [source_id |-> [kind |-> "int", val |-> 7], image |-> StrImage,
     question |-> "Pick the box.", choices |-> Choices(26)]
RecOne ==
    [source_id |-> [kind |-> "int", val |-> 7], image |-> StrImage,
     question |-> "Pick the box.", choices |-> Choices(1)]
RecEmpty ==
    [source_id |-> [kind |-> "int", val |-> 7], image |-> StrImage,
     question |-> "Pick the box.", choices |-> <<>>]
RecNoChoices ==
    [source_id |-> [kind |-> "int", val |-> 7], image |-> StrImage,
     question |-> "Pick the box."]
Rec27 ==
    [source_id |-> [kind |-> "int", val |-> 7], image |-> StrImage,
     question |-> "Pick the box.", choices |-> Choices(27)]
RecNoImage ==
    [source_id |-> [kind |-> "str", val |-> "12"],
     question |-> "Pick the box.", choices |-> Choices(4)]
RecBare == [choices |-> Choices(3)]

ConvRecords == {RecGood4, RecGood2, RecDup3, RecGood26, RecOne, RecEmpty,
                RecNoChoices, Rec27, RecNoImage, RecBare}

MissingFile == [exists |-> FALSE, records |-> <<>>]
File(records) == [exists |-> TRUE, records |-> records]
\* The first input file is any of these; the other two are plainer.
RichFiles == {MissingFile, File(<<>>)} \cup {File(<<r>>) : r \in ConvRecords}
               \cup {File(<<RecNoImage, r>>) : r \in ConvRecords}
PlainFiles == {MissingFile, File(<<>>), File(<<RecGood4>>), File(<<RecNoImage>>)}

ConvInit ==
    /\ cpc = [run \in Runs |-> "wait"]
    /\ seedArg \in SeedArgs
    /\ rng = [run \in Runs |-> 0]
    /\ inputs \in {<<f1, f2, f3>> : f1 \in RichFiles, f2 \in PlainFiles, f3 \in PlainFiles}
    /\ cfile = [run \in Runs |-> 1]
    /\ cline = [run \in Runs |-> 0 - 1]
    /\ outputs = [run \in Runs |-> [i \in DOMAIN DATASET_NAMES |-> <<>>]]
    /\ convLog = [run \in Runs |-> <<>>]

\* main up to the loop over DATASET_NAMES: the run's generator is created.
StartRun(run) ==
    /\ cpc[run] = "wait"
    /\ \A other \in Runs : other < run => cpc[other] \in {"done", "crashed"}
    /\ \E entropy \in EntropySamples :
          rng' = [rng EXCEPT ![run] = NewRng(seedArg, entropy)]
    /\ cpc' = [cpc EXCEPT ![run] = "run"]
    /\ UNCHANGED <<seedArg, inputs, cfile, cline, outputs, convLog>>

\* _convert_file up to its loop: FileNotFoundError, or the output is opened.
OpenFile(run) ==
    /\ cpc[run] = "run"
    /\ cline[run] < 0
    /\ IF ~inputs[cfile[run]].exists
       THEN /\ cpc' = [cpc EXCEPT ![run] = "crashed"]
            /\ UNCHANGED <<cline, outputs>>
       ELSE /\ cline' = [cline EXCEPT ![run] = 0]
            /\ outputs' = [outputs EXCEPT ![run][cfile[run]] = <<>>]
            /\ UNCHANGED cpc
    /\ UNCHANGED <<seedArg, rng, inputs, cfile, convLog>>

\* One iteration of _convert_file's loop.
ConvertNext(run) ==
    /\ cpc[run] = "run"
    /\ cline[run] >= 0
    /\ cline[run] < Len(inputs[cfile[run]].records)
    /\ LET record == inputs[cfile[run]].records[cline[run] + 1]
           res == _convert_record(record, rng[run])
       IN  IF res.ok
           THEN /\ outputs' = [outputs EXCEPT ![run][cfile[run]] = Append(@, res.example)]
                /\ rng' = [rng EXCEPT ![run] = res.st]
                /\ cline' = [cline EXCEPT ![run] = @ + 1]
                /\ convLog' = [convLog EXCEPT ![run] = Append(@,
                       [file |-> cfile[run], record |-> record,
                        result |-> [ok |-> TRUE, example |-> res.example]])]
                /\ UNCHANGED cpc
           ELSE /\ cpc' = [cpc EXCEPT ![run] = "crashed"]
                /\ convLog' = [convLog EXCEPT ![run] = Append(@,
                       [file |-> cfile[run], record |-> record,
                        result |-> [ok |-> FALSE, error |-> res.error]])]
                /\ UNCHANGED <<outputs, rng, cline>>
    /\ UNCHANGED <<seedArg, inputs, cfile>>

\* _convert_file returns; main goes on to the next name or ends.
CloseFile(run) ==
    /\ cpc[run] = "run"
    /\ cline[run] = Len(inputs[cfile[run]].records)
    /\ inputs[cfile[run]].exists
    /\ IF cfile[run] = Len(DATASET_NAMES)
       THEN cpc' = [cpc EXCEPT ![run] = "done"] /\ UNCHANGED <<cfile, cline>>
       ELSE /\ cfile' = [cfile EXCEPT ![run] = @ + 1]
            /\ cline' = [cline EXCEPT ![run] = 0 - 1]
            /\ UNCHANGED cpc
    /\ UNCHANGED <<seedArg, rng, inputs, outputs, convLog>>

(***************************************************************************)
(* Calls of the pure helpers, each on arguments drawn from a small set.    *)
(***************************************************************************)
\* The entries a target of _label_swap_variant is made of: two labels, two
\* boxes, one box carried by both labels.
SwapEntries == {<<"cat", BoxCat>>, <<"dog", BoxDog1>>, <<"cat", BoxDog1>>}
MaxSwapLen == 4
SwapTargets == UNION {[1..n -> SwapEntries] : n \in 1..MaxSwapLen}

SwapInit ==
    /\ kpc = "ready"
    /\ kin \in SwapTargets
    /\ kout = None

\* candidate = _label_swap_variant(target_entries)
LabelSwapCall ==
    /\ kpc = "ready"
    /\ \E variant \in _label_swap_variant(kin) : kout' = variant
    /\ kpc' = "done"
    /\ UNCHANGED kin

\* The records the multi-category gate is called on: no, one or two labels,
\* each with zero, one or two boxes, and a num_objs that may or may not be
\* the number of labels.
MaxNumObjs == 3
GateBoxLists == {<<>>, <<BoxCat>>, <<BoxCat, BoxDog1>>}
GateObjs ==
    {<<>>}
    \cup {<< [name |-> n, bboxes |-> b] >> : n \in {"cat", "dog"}, b \in GateBoxLists}
    \cup {<< [name |-> nm[1], bboxes |-> b1], [name |-> nm[2], bboxes |-> b2] >> :
             nm \in {<<"cat", "dog">>, <<"dog", "cat">>},
             b1 \in GateBoxLists, b2 \in GateBoxLists}
GateRecords == {GroundingData("1", o, n) : o \in GateObjs, n \in 0..MaxNumObjs}

GateInit ==
    /\ kpc = "ready"
    /\ kin \in GateRecords
    /\ kout = None

\* DetectMultiObjectFormatter().check_eligible(data)
GateCall ==
    /\ kpc = "ready"
    /\ kout' = MultiObjectCheckEligible(kin)
    /\ kpc' = "done"
    /\ UNCHANGED kin

(***************************************************************************)
(* random_bbox (grounding/utils/bbox.py) and the two formatters that pad   *)
(* their candidates with it: DetectSingleFormatter.format and              *)
(* DetectMultiFormatter.format.                                            *)
(***************************************************************************)
in_box(bbox, larger_bbox) ==
    /\ bbox[1] >= larger_bbox[1]
    /\ bbox[2] >= larger_bbox[2]
    /\ bbox[3] <= larger_bbox[3]
    /\ bbox[4] <= larger_bbox[4]

\* The whole image.
BoxFull == <<0, 0, One, One>>

\* One draw of random_bbox: mode 1 is rand_choice < 0.6 (each coordinate moved
\* by uniform(-0.1, 0.1)), mode 2 is rand_choice < 0.9 (uniform(-0.3, 0.3)),
\* mode 3 is the rest (four values of uniform(0, 1)); v holds the four uniform
\* values, in ticks.
RandomBboxDraws ==
    {[mode |-> 1, v |-> <<0, 0, 0, 0>>],
     [mode |-> 1, v |-> <<1000, 1000, 1000, 1000>>],
     [mode |-> 2, v |-> <<3000, 3000, 3000, 3000>>],
     [mode |-> 3, v |-> BoxFull],
     [mode |-> 3, v |-> <<6000, 0, 10000, 3000>>],
     [mode |-> 3, v |-> <<0, 6000, 3000, 10000>>],
     [mode |-> 3, v |-> <<9000, 9000, 7000, 2000>>],
     [mode |-> 3, v |-> <<2004, 4996, 6996, 9004>>]}

\* Lines 19-45: the box drawn, rounded, clamped and put in order.
DrawnBbox(original_bbox, draw) ==
    LET raw == IF draw.mode = 3 THEN draw.v
               ELSE [i \in 1..4 |-> original_bbox[i] + draw.v[i]]
        b   == [i \in 1..4 |-> Max(0, Min(One, Round3(raw[i])))]
        xs  == OrderPair(b[1], b[3])
        ys  == OrderPair(b[2], b[4])
    IN  <<xs[1], ys[1], xs[2], ys[2]>>

\* Line 47, in square ticks.
Area(bbox) == (bbox[3] - bbox[1]) * (bbox[4] - bbox[2])

\* Lines 49-54: the drawn box is thrown away and random_bbox calls itself.
Redrawn(original_bbox, bbox) ==
    \/ Area(bbox) < (One * One) \div 100
    \/ Area(bbox) > 9 * ((One * One) \div 10)
    \/ in_box(bbox, original_bbox)
    \/ in_box(original_bbox, bbox)

\* Bound: the interpreter's recursion limit, i.e. how many times random_bbox
\* may call itself before RecursionError is raised.
RecursionLimit == 2

\* DetectMultiFormatter's _signature: the boxes as they are, in their order.
MultiSignature(bboxes) == [i \in DOMAIN bboxes |-> [j \in DOMAIN bboxes[i] |-> bboxes[i][j]]]

\* Records the two formatters are run on.
BoxStrip(i) == <<1000 * i, 0, 1000 * i + 800, One>>
BoxStrips == [i \in 1..6 |-> BoxStrip(i)]

\* one single-box label; six more boxes under a label with many boxes
SingleObjsPlain == << [name |-> "cat", bboxes |-> <<BoxCat>>],
                      [name |-> "rest", bboxes |-> BoxStrips] >>
\* two single-box labels that carry the same box
SingleObjsSameBox == << [name |-> "cat", bboxes |-> <<BoxCat>>],
                        [name |-> "dog", bboxes |-> <<BoxCat>>],
                        [name |-> "rest", bboxes |-> BoxStrips] >>
\* the single-box label covers the whole image
SingleObjsFull == << [name |-> "cat", bboxes |-> <<BoxFull>>],
                     [name |-> "rest", bboxes |-> BoxStrips] >>
\* enough boxes without any padding
SingleObjsMany == << [name |-> "cat", bboxes |-> <<BoxFull>>],
                     [name |-> "rest", bboxes |-> BoxStrips \o <<BoxDog1, BoxDog2>>] >>
SingleRecords ==
    {GroundingData("1", o, Len(o)) :
        o \in {SingleObjsPlain, SingleObjsSameBox, SingleObjsFull, SingleObjsMany}}

\* no label with several boxes: the formatter takes any label
MultiObjsSingles == << [name |-> "cat", bboxes |-> <<BoxCat>>],
                       [name |-> "dog", bboxes |-> <<BoxDog1>>],
                       [name |-> "pig", bboxes |-> <<BoxDog2>>] >>
\* eight labels of two boxes; cat and dog hold the same two boxes in a
\* different order
MultiObjsPairs ==
    << [name |-> "cat", bboxes |-> <<BoxCat, BoxDog1>>],
       [name |-> "dog", bboxes |-> <<BoxDog1, BoxCat>>] >>
    \o [i \in 1..6 |-> [name |-> <<"ant", "bee", "cow", "elk", "fox", "hen">>[i],
                        bboxes |-> <<BoxStrip(i), BoxDog2>>]]
\* the only label covers the whole image
MultiObjsFull == << [name |-> "cat", bboxes |-> <<BoxFull>>] >>
MultiRecords ==
    {GroundingData("1", o, Len(o)) : o \in {MultiObjsSingles, MultiObjsPairs, MultiObjsFull}}

\* No call of random_bbox is under way.
NoCall == [original_bbox |-> <<>>, depth |-> 0]

BoxInit ==
    /\ spc = "start"
    /\ \/ skind = "single" /\ sdata \in {d \in SingleRecords : SingleCheckEligible(d)}
       \/ skind = "multi" /\ sdata \in {d \in MultiRecords : \E draw \in {5, 50} :
                                                              MultiCheckEligible(d, draw)}
    /\ starget = None /\ spool = <<>> /\ sused = {} /\ sattempts = 0
    /\ scand = <<>> /\ scall = NoCall /\ schoices = <<>>

RECURSIVE Flatten(_)
Flatten(ss) == IF ss = <<>> THEN <<>> ELSE Head(ss) \o Flatten(Tail(ss))

\* DetectSingleFormatter.format, lines 28-44: pick is the index random.choice
\* returns.
SingleStart(pick) ==
    LET objs == sdata.objs
        single == SelectSeq([i \in DOMAIN objs |-> i], LAMBDA i : Len(objs[i].bboxes) = 1)
        others == Flatten([i \in DOMAIN objs |->
                             IF Len(objs[i].bboxes) = 1 THEN <<>> ELSE objs[i].bboxes])
        chosen == single[pick]
        obj_name == objs[chosen].name
        rest == SelectSeq(single, LAMBDA i : objs[i].name # obj_name)
        other_bboxes == others \o [k \in DOMAIN rest |-> objs[rest[k]].bboxes[1]]
    IN  /\ spc = "start" /\ skind = "single"
        /\ pick \in DOMAIN single
        /\ starget' = [name |-> obj_name, bboxes |-> objs[chosen].bboxes]
        /\ spool' = other_bboxes
        /\ spc' = IF Len(other_bboxes) < 8 THEN "pad" ELSE "sample"
        /\ UNCHANGED <<skind, sdata, sused, sattempts, scand, scall, schoices>>

\* add_candidate (lines 54-60), on the pair <<distractors, used_signatures>>.
AddCandidate(state, candidate, target_len) ==
    IF Len(candidate) # target_len THEN state
    ELSE IF MultiSignature(candidate) \in state[2] THEN state
    ELSE <<Append(state[1], candidate), state[2] \cup {MultiSignature(candidate)}>>

RECURSIVE AddCandidates(_, _, _)
AddCandidates(state, candidates, target_len) ==
    IF candidates = <<>> THEN state
    ELSE AddCandidates(AddCandidate(state, Head(candidates), target_len),
                       Tail(candidates), target_len)

\* Where DetectMultiFormatter.format goes on after an add_candidate: the loop
\* of lines 68-75, the loop of lines 77-81, or the sampling of line 84.
PartialPosition(n, att) ==
    IF n < 3 /\ att < 50 THEN "partial" ELSE IF n < 8 THEN "full" ELSE "sample"

\* DetectMultiFormatter.format, lines 34-67.
MultiStart(pick) ==
    LET objs == sdata.objs
        multi_objs == SelectSeq([i \in DOMAIN objs |-> i], LAMBDA i : Len(objs[i].bboxes) > 1)
        pool == IF Len(multi_objs) = 0 THEN [i \in DOMAIN objs |-> i] ELSE multi_objs
        chosen == pool[pick]
        obj_name == objs[chosen].name
        target_bboxes == objs[chosen].bboxes
        rest == SelectSeq([i \in DOMAIN objs |-> i], LAMBDA i : objs[i].name # obj_name)
        added == AddCandidates(<< <<>>, {MultiSignature(target_bboxes)} >>,
                               [k \in DOMAIN rest |-> objs[rest[k]].bboxes],
                               Len(target_bboxes))
    IN  /\ spc = "start" /\ skind = "multi"
        /\ pick \in DOMAIN pool
        /\ starget' = [name |-> obj_name, bboxes |-> target_bboxes]
        /\ spool' = added[1]
        /\ sused' = added[2]
        /\ sattempts' = 0
        /\ spc' = PartialPosition(Len(added[1]), 0)
        /\ UNCHANGED <<skind, sdata, scand, scall, schoices>>

\* Lines 69-72 of one pass of the first loop: the kept boxes.  With nothing
\* left to draw the pass ends at once (lines 74-75).
PartialAttempt(keep_indices) ==
    LET target_bboxes == starget.bboxes
        target_len == Len(target_bboxes)
        candidate == [k \in DOMAIN keep_indices |-> target_bboxes[keep_indices[k]]]
        added == AddCandidate(<<spool, sused>>, candidate, target_len)
    IN  /\ spc = "partial" /\ scand = <<>> /\ scall = NoCall
        /\ \E keep_count \in (IF target_len > 1 THEN 1..(target_len - 1) ELSE {1}) :
              keep_indices \in OrderedSamples(target_len, keep_count)
        /\ IF Len(candidate) < target_len
           THEN /\ scand' = candidate
                /\ spc' = "partial_fill"
                /\ UNCHANGED <<spool, sused, sattempts>>
           ELSE /\ spool' = added[1]
                /\ sused' = added[2]
                /\ sattempts' = sattempts + 1
                /\ spc' = PartialPosition(Len(added[1]), sattempts + 1)
                /\ UNCHANGED scand
        /\ UNCHANGED <<skind, sdata, starget, scall, schoices>>

\* random_bbox is called: on the target box by the single-box formatter
\* (line 46), on random.choice(target_bboxes) by the other (lines 73, 79).
CallRandomBbox(idx) ==
    /\ spc \in {"pad", "partial_fill", "full"}
    /\ scall = NoCall
    /\ idx \in DOMAIN starget.bboxes
    /\ scall' = [original_bbox |-> starget.bboxes[idx], depth |-> 0]
    /\ UNCHANGED <<spc, skind, sdata, starget, spool, sused, sattempts, scand, schoices>>

\* random_bbox returns its box (line 57) and the caller goes on up to its
\* next call of random_bbox or to the sampling.
RandomBboxReturn(draw) ==
    LET bbox == DrawnBbox(scall.original_bbox, draw)
        target_len == Len(starget.bboxes)
        candidate == Append(scand, bbox)
        added == AddCandidate(<<spool, sused>>, candidate, target_len)
    IN  /\ spc \in {"pad", "partial_fill", "full"}
        /\ scall # NoCall
        /\ ~Redrawn(scall.original_bbox, bbox)
        /\ scall' = NoCall
        /\ CASE spc = "pad" ->
                  /\ spool' = Append(spool, bbox)
                  /\ spc' = IF Len(spool) + 1 < 8 THEN "pad" ELSE "sample"
                  /\ UNCHANGED <<sused, sattempts, scand>>
             [] spc \in {"partial_fill", "full"} /\ Len(candidate) < target_len ->
                  /\ scand' = candidate
                  /\ UNCHANGED <<spc, spool, sused, sattempts>>
             [] spc = "partial_fill" /\ Len(candidate) >= target_len ->
                  /\ spool' = added[1]
                  /\ sused' = added[2]
                  /\ sattempts' = sattempts + 1
                  /\ scand' = <<>>
                  /\ spc' = PartialPosition(Len(added[1]), sattempts + 1)
             [] spc = "full" /\ Len(candidate) >= target_len ->
                  /\ spool' = added[1]
                  /\ sused' = added[2]
                  /\ scand' = <<>>
                  /\ spc' = IF Len(added[1]) < 8 THEN "full" ELSE "sample"
                  /\ UNCHANGED sattempts
        /\ UNCHANGED <<skind, sdata, starget, schoices>>

\* Line 55: the drawn box is thrown away and random_bbox calls itself.
RandomBboxRecurse(draw) ==
    /\ spc \in {"pad", "partial_fill", "full"}
    /\ scall # NoCall
    /\ Redrawn(scall.original_bbox, DrawnBbox(scall.original_bbox, draw))
    /\ scall.depth < RecursionLimit
    /\ scall' = [scall EXCEPT !.depth = @ + 1]
    /\ UNCHANGED <<spc, skind, sdata, starget, spool, sused, sattempts, scand, schoices>>

\* Line 55 at the recursion limit: RecursionError leaves format.
RandomBboxOverflow(draw) ==
    /\ spc \in {"pad", "partial_fill", "full"}
    /\ scall # NoCall
    /\ Redrawn(scall.original_bbox, DrawnBbox(scall.original_bbox, draw))
    /\ scall.depth >= RecursionLimit
    /\ spc' = "crashed"
    /\ UNCHANGED <<skind, sdata, starget, spool, sused, sattempts, scand, scall, schoices>>

\* Lines 44-48 (single) and 83-85 (multi): the target, then random.sample of
\* three candidates; format returns and its working lists are gone.
SampleChoices(sel) ==
    /\ spc = "sample"
    /\ sel \in OrderedSamples(Len(spool), 3)
    /\ schoices' = <<IF skind = "single" THEN starget.bboxes[1] ELSE starget.bboxes>>
                   \o [k \in 1..3 |-> spool[sel[k]]]
    /\ spc' = "done"
    /\ spool' = <<>> /\ sused' = {} /\ sattempts' = 0
    /\ UNCHANGED <<skind, sdata, starget, scand, scall>>

\* The pairs of answer choices a Signature is computed on: a choice, and the
\* same choice in another order with coordinates that round to the same
\* 3-decimal values.  A choice of the multi-category formatter is a list of
\* (label, box) entries, a choice of the same-label formatter a list of boxes.
MaxSigLen == 3
RoundingOffsets == {<<0, 0, 0, 0>>, <<4, -4, 3, -2>>}
MoveBox(bbox, off) == [i \in DOMAIN bbox |-> bbox[i] + off[i]]
SigEntryLists == UNION {[1..n -> SwapEntries] : n \in 1..MaxSigLen}
SigBoxLists == UNION {[1..n -> {BoxCat, BoxDog1, <<2000, 2000, 6000, 6000>>}] : n \in 1..MaxSigLen}
EntryVariants(x) ==
    {[i \in DOMAIN x |-> <<x[p[i]][1], MoveBox(x[p[i]][2], off)>>] :
        p \in Perms(Len(x)), off \in RoundingOffsets}
BoxVariants(x) ==
    {[i \in DOMAIN x |-> MoveBox(x[p[i]], off)] : p \in Perms(Len(x)), off \in RoundingOffsets}
SigInputs ==
    UNION {{[formatter |-> "detect_multi_object", a |-> x, b |-> y] : y \in EntryVariants(x)} :
              x \in SigEntryLists}
    \cup
    UNION {{[formatter |-> "detect_multi", a |-> x, b |-> y] : y \in BoxVariants(x)} :
              x \in SigBoxLists}

SigInit ==
    /\ kpc = "ready"
    /\ kin \in SigInputs
    /\ kout = None

\* _signature of both choices, and add_candidate of the second after the
\* first was recorded in used_signatures.
SignatureCall ==
    /\ kpc = "ready"
    /\ kout' = IF kin.formatter = "detect_multi"
              THEN [sig_a |-> MultiSignature(kin.a), sig_b |-> MultiSignature(kin.b),
                    added |-> AddCandidate(<< <<>>, {MultiSignature(kin.a)} >>,
                                           kin.b, Len(kin.a))[1]]
              ELSE [sig_a |-> _signature(kin.a), sig_b |-> _signature(kin.b),
                    added |-> add_candidate(kin.b, <<>>, {_signature(kin.a)},
                                            Len(kin.a)).distractors]
    /\ kpc' = "done"
    /\ UNCHANGED kin

\* The lists _shuffle_choices is called on: 2 to MaxChoiceCount distinct
\* texts, and lists that hold a text twice; the generator is in any of the
\* states 0..MaxRngState.
MaxChoiceCount == 26
MaxRngState == 7
ShuffleChoiceLists ==
    {Choices(n) : n \in 2..MaxChoiceCount}
    \cup {<<"t0", "t1", "t0">>, <<"t0", "t0">>, <<"t1", "t0", "t2", "t0", "t1">>}
ShuffleInit ==
    /\ kpc = "ready"
    /\ kin \in {[choices |-> c, st |-> st] : c \in ShuffleChoiceLists, st \in 0..MaxRngState}
    /\ kout = None

\* _shuffle_choices(choices, rng)
ShuffleCall ==
    /\ kpc = "ready"
    /\ kout' = _shuffle_choices(kin.choices, kin.st)
    /\ kpc' = "done"
    /\ UNCHANGED kin

(***************************************************************************)
(* Each component is checked on its own: the variables of the components   *)
(* that are not running keep these values.                                 *)
(***************************************************************************)
AllocIdle ==
    /\ apc = "idle" /\ counts = None /\ targets = None /\ used_items = {}
    /\ handles = None /\ nread = 0 /\ missing = None /\ assignLog = <<>>

SynthIdle ==
    /\ fpc = "idle" /\ fdata = None /\ target_entries = <<>> /\ distractors = <<>>
    /\ used_signatures = {} /\ attempts = 0 /\ force_delta = [ticks |-> 0, err |-> 0]
    /\ selected = <<>> /\ selected_signatures = {} /\ choices = <<>>

ConvIdle ==
    /\ cpc = <<>> /\ seedArg = [given |-> FALSE, val |-> 0] /\ rng = <<>> /\ inputs = <<>>
    /\ cfile = <<>> /\ cline = <<>> /\ outputs = <<>> /\ convLog = <<>>

JitIdle ==
    /\ jpc = "idle" /\ jin = None /\ jdelta = 0 /\ jnoise = None /\ jout = None

CallIdle ==
    /\ kpc = "idle" /\ kin = None /\ kout = None

BoxIdle ==
    /\ spc = "idle" /\ skind = None /\ sdata = None /\ starget = None /\ spool = <<>>
    /\ sused = {} /\ sattempts = 0 /\ scand = <<>> /\ scall = NoCall /\ schoices = <<>>

(***************************************************************************)
(* Specifications.                                                         *)
(***************************************************************************)
InitAlloc == AllocInit /\ SynthIdle /\ ConvIdle /\ JitIdle /\ CallIdle /\ BoxIdle
AllocFrame == UNCHANGED <<synthVars, convVars, jitVars, callVars, boxVars>>
NextAlloc ==
    \/ AllocFrame /\ \E data \in AllocRecords, draw \in RandomDraws : ProcessLine(data, draw)
    \/ AllocFrame /\ EndOfInput
    \/ AllocFrame /\ Finish
SpecAlloc == InitAlloc /\ [][NextAlloc]_vars

InitJitter == JitInit /\ AllocIdle /\ SynthIdle /\ ConvIdle /\ CallIdle /\ BoxIdle
NextJitter ==
    \/ JitterCall /\ UNCHANGED <<allocVars, synthVars, convVars, callVars, boxVars>>
SpecJitter == InitJitter /\ [][NextJitter]_vars

InitConv == ConvInit /\ AllocIdle /\ SynthIdle /\ JitIdle /\ CallIdle /\ BoxIdle
ConvFrame == UNCHANGED <<allocVars, synthVars, jitVars, callVars, boxVars>>
NextConv ==
    \/ ConvFrame /\ \E run \in Runs : StartRun(run)
    \/ ConvFrame /\ \E run \in Runs : OpenFile(run)
    \/ ConvFrame /\ \E run \in Runs : ConvertNext(run)
    \/ ConvFrame /\ \E run \in Runs : CloseFile(run)
SpecConv == InitConv /\ [][NextConv]_vars

InitSynth == SynthInit /\ AllocIdle /\ ConvIdle /\ JitIdle /\ CallIdle /\ BoxIdle
SynthFrame == UNCHANGED <<allocVars, convVars, jitVars, callVars, boxVars>>
NextSynth ==
    \/ SynthFrame /\ ChooseTarget
    \/ SynthFrame /\ SwapMutateAttempt
    \/ SynthFrame /\ GentleAttempt
    \/ SynthFrame /\ EscalateAttempt
    \/ SynthFrame /\ HeavyAttempt
    \/ SynthFrame /\ LastResort
    \/ SynthFrame /\ Select
    \/ SynthFrame /\ FillAttempt
    \/ SynthFrame /\ ForceFill
    \/ SynthFrame /\ Return
SpecSynth == InitSynth /\ [][NextSynth]_vars

IdleButCall == AllocIdle /\ SynthIdle /\ ConvIdle /\ JitIdle /\ BoxIdle
CallFrame == UNCHANGED <<allocVars, synthVars, convVars, jitVars, boxVars>>

InitSwap == SwapInit /\ IdleButCall
NextSwap ==
    \/ CallFrame /\ LabelSwapCall
SpecSwap == InitSwap /\ [][NextSwap]_vars

InitBox == BoxInit /\ AllocIdle /\ SynthIdle /\ ConvIdle /\ JitIdle /\ CallIdle
BoxFrame == UNCHANGED <<allocVars, synthVars, convVars, jitVars, callVars>>
NextBox ==
    \/ BoxFrame /\ \E pick \in 1..8 : SingleStart(pick)
    \/ BoxFrame /\ \E pick \in 1..8 : MultiStart(pick)
    \/ BoxFrame /\ \E keep_indices \in OrderedSamples(2, 1) : PartialAttempt(keep_indices)
    \/ BoxFrame /\ \E idx \in 1..2 : CallRandomBbox(idx)
    \/ BoxFrame /\ \E draw \in RandomBboxDraws : RandomBboxReturn(draw)
    \/ BoxFrame /\ \E draw \in RandomBboxDraws : RandomBboxRecurse(draw)
    \/ BoxFrame /\ \E draw \in RandomBboxDraws : RandomBboxOverflow(draw)
    \/ BoxFrame /\ \E sel \in OrderedSamples(Len(spool), 3) : SampleChoices(sel)
SpecBox == InitBox /\ [][NextBox]_vars

InitSig == SigInit /\ IdleButCall
NextSig ==
    \/ CallFrame /\ SignatureCall
SpecSig == InitSig /\ [][NextSig]_vars

InitShuffle == ShuffleInit /\ IdleButCall
NextShuffle ==
    \/ CallFrame /\ ShuffleCall
SpecShuffle == InitShuffle /\ [][NextShuffle]_vars

InitGate == GateInit /\ IdleButCall
NextGate ==
    \/ CallFrame /\ GateCall
SpecGate == InitGate /\ [][NextGate]_vars

(***************************************************************************)
(* Claims about the quota allocator.                                       *)
(***************************************************************************)
LineKey(line) == line.source_dataset \o ":" \o line.source_id

\* Every line of every output file, as <<file, position>>.
WrittenLines == {<<name, i>> : name \in SpecNames, i \in 1..MaxStream} \cap
                {w \in SpecNames \X (1..MaxStream) : w[2] <= Len(handles[w[1]])}

\* C1: in one generation pass a record key contributes to at most one
\* question type's output: no key is written to two output files, nor twice
\* to the same file, also when the input stream repeats a key.
C1_KeyWrittenOnce ==
    \A v, w \in WrittenLines :
        v # w => LineKey(handles[v[1]][v[2]]) # LineKey(handles[w[1]][w[2]])

\* C1 witness: the stream repeated a key already written, and the repeat was
\* skipped.
C1_Witness ==
    \E i \in DOMAIN assignLog :
        /\ assignLog[i].skipped
        /\ \E w \in WrittenLines :
              LineKey(handles[w[1]][w[2]]) = UniqueId(assignLog[i].data)

\* counts right after the i-th input line was handled.
CountsAfter(i) == IF i < Len(assignLog) THEN assignLog[i + 1].before ELSE counts

Unmet(name, cnts) == cnts[name] < targets[name]

PriorityIndex(name) == CHOOSE i \in DOMAIN formatter_specs : formatter_specs[i] = name

EligibleForAll(e) == \A name \in SpecNames : check_eligible(name, e.data, e.draw)

\* C4: each unconsumed record goes to the first question type, in the order
\* detect_single, detect_multi, detect_multi_object, whose quota is unmet and
\* whose gate accepts, and to no further type; with targets of 1 per type and
\* three (distinct) records eligible for all three types, record 1 goes to the
\* first type, record 2 to the second and record 3 to the third.
C4_FirstEligibleType ==
    /\ formatter_specs = <<"detect_single", "detect_multi", "detect_multi_object">>
    /\ \A i \in DOMAIN assignLog :
         LET e == assignLog[i]
             after == CountsAfter(i)
         IN  ~e.skipped =>
               /\ \A name \in SpecNames :
                    (e.assigned = name) <=>
                       /\ Unmet(name, e.before)
                       /\ check_eligible(name, e.data, e.draw)
                       /\ \A m \in SpecNames :
                            PriorityIndex(m) < PriorityIndex(name) =>
                               ~(Unmet(m, e.before) /\ check_eligible(m, e.data, e.draw))
               /\ \A name \in SpecNames :
                    after[name] = e.before[name] + (IF e.assigned = name THEN 1 ELSE 0)
               /\ e.assigned # None =>
                    handles[e.assigned][after[e.assigned]] = OutputLine(e.assigned, e.data)
    /\ ( /\ \A name \in SpecNames : targets[name] = 1
         /\ Len(assignLog) >= 3
         /\ \A i \in 1..3 : EligibleForAll(assignLog[i])
         /\ \A i, j \in 1..3 : i # j =>
               UniqueId(assignLog[i].data) # UniqueId(assignLog[j].data) )
       => /\ handles["detect_single"] = <<OutputLine("detect_single", assignLog[1].data)>>
          /\ handles["detect_multi"] = <<OutputLine("detect_multi", assignLog[2].data)>>
          /\ handles["detect_multi_object"] =
                <<OutputLine("detect_multi_object", assignLog[3].data)>>
          /\ apc # "loop"

\* C4 witness: Scenario B has run, and some record was passed over by a type
\* whose quota was already met.
C4_Witness ==
    /\ \A name \in SpecNames : targets[name] = 1
    /\ Len(assignLog) = 3
    /\ \A i \in 1..3 : EligibleForAll(assignLog[i])
    /\ \A i, j \in 1..3 : i # j =>
          UniqueId(assignLog[i].data) # UniqueId(assignLog[j].data)
    /\ assignLog[3].assigned = "detect_multi_object"

UnderFilled == {name \in SpecNames : Len(handles[name]) < targets[name]}

\* C5: when the input is exhausted with some type below its target, the run
\* ends in the fatal error, which reports for exactly the under-filled types
\* the shortfall target - count; no run completes successfully with an
\* under-filled output file.
C5_ShortfallIsFatal ==
    /\ apc = "ok" => UnderFilled = {}
    /\ apc = "failed" =>
         /\ UnderFilled # {}
         /\ DOMAIN missing = UnderFilled
         /\ \A name \in UnderFilled :
               missing[name] = targets[name] - Len(handles[name])
    /\ apc \in {"loop", "after"} => missing = None

\* C5 witness: a failed run in which one type is filled and another is not.
C5_Witness ==
    /\ apc = "failed"
    /\ UnderFilled # {}
    /\ UnderFilled # SpecNames
    /\ \E name \in UnderFilled : missing[name] >= 2

(***************************************************************************)
(* Claims about the distractor synthesizer.                                *)
(***************************************************************************)
\* The Signature of one choice of the returned bundle.
ChoiceSignature(choice) ==
    SortEntries([i \in DOMAIN choice |-> <<choice[i].name, choice[i].bbox>>])

DistractorChoices == SubSeq(choices, 2, Len(choices))

\* C2: in every returned ChoiceBundle the target Signature is not among the
\* distractor Signatures, the 3 distractor Signatures are pairwise distinct,
\* and all 4 EntrySets have the same cardinality.
C2_BundleSignaturesDistinct ==
    fpc = "done" =>
       /\ \A i \in DOMAIN DistractorChoices :
             ChoiceSignature(DistractorChoices[i]) # ChoiceSignature(choices[1])
       /\ \A i, j \in DOMAIN DistractorChoices :
             i # j => ChoiceSignature(DistractorChoices[i]) # ChoiceSignature(DistractorChoices[j])
       /\ \A i \in DOMAIN choices : Len(choices[i]) = Len(choices[1])

\* Where format is in its cascade: the loops in program order.
StageIndex(pc) ==
    CASE pc = "start" -> 0
      [] pc = "swap_mutate" -> 1
      [] pc = "gentle" -> 2
      [] pc = "escalate" -> 3
      [] pc = "heavy" -> 4
      [] pc = "last_resort" -> 5
      [] pc = "select" -> 6
      [] pc = "fill" -> 7
      [] pc = "force_fill" -> 8
      [] pc = "return" -> 9
      [] pc = "done" -> 10

\* The work done so far: the loop reached, and within it the iterations made.
WorkDone == StageIndex(fpc) * One + attempts + force_delta.ticks + Len(selected)

\* C3: the synthesizer always succeeds: every step of format advances it
\* through its bounded loops, a call that has not returned can always take
\* its next step, and what it returns holds exactly 3 distractors.
C3_AlwaysReturnsThree ==
    /\ [][WorkDone' > WorkDone]_vars
    /\ [](fpc # "done" => ENABLED NextSynth)
    /\ [](/\ fpc = "swap_mutate" => attempts < MainAttempts
          /\ fpc = "gentle" => attempts < GentleAttempts
          /\ fpc = "escalate" => ForceDeltaInRange(force_delta)
          /\ fpc = "heavy" => attempts < HeavyAttempts
          /\ fpc = "fill" => attempts < FillAttempts /\ Len(selected) < 3
          /\ fpc = "force_fill" => Len(selected) < 3)
    /\ [](fpc = "done" => Len(choices) = 4 /\ Len(DistractorChoices) = 3)

\* A cardinality-2 target whose bundle was completed by the escalation loop:
\* one of the three returned distractors is a variant made at 0.12, 0.16 or
\* 0.2, and the three are pairwise distinct and differ from the target.
EscalationDeltas == {1200, 1600, 2000}
C3_Witness ==
    /\ fpc = "done"
    /\ Len(choices[1]) = 2
    /\ Len(DistractorChoices) = 3
    /\ \E target \in TargetChoices(fdata) : \E i \in 2..4 : \E d \in EscalationDeltas :
          /\ choices[1] = _format_entries(target)
          /\ choices[i] \in {_format_entries(v) : v \in _aggressive_variant(target, d)}
          /\ ChoiceSignature(choices[i]) # ChoiceSignature(choices[1])
    /\ Cardinality({ChoiceSignature(choices[i]) : i \in 1..4}) = 4

(***************************************************************************)
(* Claims about the bbox jitter.                                           *)
(***************************************************************************)
\* C10: for every input box and every max_delta >= 0 the jittered box has its
\* four coordinates in [0,1], on the 3-decimal grid, with x1 <= x2 and
\* y1 <= y2.
C10_JitterInUnitSquareOrdered ==
    jpc = "done" =>
        /\ \A i \in 1..4 : 0 <= jout[i] /\ jout[i] <= One /\ jout[i] % GridStep = 0
        /\ jout[1] <= jout[3]
        /\ jout[2] <= jout[4]

\* C10 witness: a call in which the perturbed x's came out inverted and were
\* swapped, a coordinate was clamped at 0 and another at 1.
C10_Witness ==
    /\ jpc = "done"
    /\ jdelta > 0
    /\ jin[1] < jin[3]
    /\ jin[1] + jnoise[1] > jin[3] + jnoise[3]
    /\ jin[2] + jnoise[2] < 0
    /\ jin[4] + jnoise[4] > One

(***************************************************************************)
(* Claims about the prompt assembler.                                      *)
(***************************************************************************)
HumanPrompt(example) == example.conversations[1].value
AssistantAnswer(example) == example.conversations[2].value

\* The letters under which `text` is shown as an option in the prompt: a
\* letter token followed by a separator and the text.
ShownLetters(prompt, text) ==
    {letter \in Range(OPTION_LETTERS) :
        \E n \in DOMAIN prompt : \E k \in DOMAIN prompt[n] :
            /\ k + 2 <= Len(prompt[n])
            /\ prompt[n][k] = letter
            /\ prompt[n][k + 1] \in {". ", ") ", ": "}
            /\ prompt[n][k + 2] = text}

\* The response styles whose instruction text the prompt carries.
StylesInPrompt(prompt) ==
    {name \in {"letter", "answer", "final", "lowercase", "option"} :
        \E n \in DOMAIN prompt :
            prompt[n] = << CASE name = "letter"    -> "Choose the best option from the list."
                             [] name = "answer"    -> "Select the most accurate choice."
                             [] name = "final"     -> "Pick the option that fits best."
                             [] name = "lowercase" -> "Determine the correct candidate."
                             [] name = "option"    -> "Choose the most suitable option." >>}

\* A letter rendered in a response style, as the specification lists them.
InStyle(name, letter) ==
    CASE name = "letter"    -> letter
      [] name = "answer"    -> "Answer: " \o letter
      [] name = "final"     -> "Final answer: " \o letter
      [] name = "lowercase" -> Lower(letter)
      [] name = "option"    -> "Option " \o letter

ConvEntries == {<<run, i>> : run \in Runs, i \in 1..7} \cap
               {w \in Runs \X (1..7) : w[2] <= Len(convLog[w[1]])}
Entry(w) == convLog[w[1]][w[2]]

Convertible(record) ==
    /\ Has(record, "choices")
    /\ Len(record.choices) >= 2
    /\ Len(record.choices) <= 26

\* C6: for every record with 2..26 choices and every state of the random
\* source, the answer key is the letter under which the original index-0
\* choice text is shown in the human prompt, and the assistant answer is that
\* letter rendered in the one response style whose instruction text the
\* prompt carries.
C6_AnswerKeyMatchesPrompt ==
    \A w \in ConvEntries :
        Convertible(Entry(w).record) =>
            /\ Entry(w).result.ok
            /\ LET prompt == HumanPrompt(Entry(w).result.example)
                   answer == AssistantAnswer(Entry(w).result.example)
               IN  /\ Cardinality(StylesInPrompt(prompt)) = 1
                   /\ \E letter \in ShownLetters(prompt, Entry(w).record.choices[1]) :
                         \A name \in StylesInPrompt(prompt) :
                             answer = InStyle(name, letter)

\* C6 witness: a converted record whose correct choice is not shown first and
\* whose answer is in the lowercase style.
C6_Witness ==
    \E w \in ConvEntries :
        /\ Entry(w).result.ok
        /\ Len(Entry(w).record.choices) = 4
        /\ "A" \notin ShownLetters(HumanPrompt(Entry(w).result.example),
                                  Entry(w).record.choices[1])
        /\ StylesInPrompt(HumanPrompt(Entry(w).result.example)) = {"lowercase"}

\* C7: two runs started from the same seed on the same input produce, record
\* by record, the same result: the same letter shuffle, layout template,
\* response style and recorded correct letter.
C7_SameSeedSameOutput ==
    seedArg.given =>
        /\ \A i \in 1..Min(Len(convLog[1]), Len(convLog[2])) :
              convLog[1][i] = convLog[2][i]
        /\ cpc[2] \in {"done", "crashed"} => outputs[1] = outputs[2] /\ cpc[1] = cpc[2]

\* C7 witness: both seeded runs have finished, each having converted at least
\* three records.
C7_Witness ==
    /\ seedArg.given
    /\ cpc[1] = "done" /\ cpc[2] = "done"
    /\ Len(convLog[2]) >= 3
    /\ \A i \in DOMAIN convLog[2] : convLog[2][i].result.ok

BadChoices(record) ==
    IF Has(record, "choices")
    THEN Len(record.choices) < 2 \/ Len(record.choices) > 26
    ELSE TRUE

NumWritten(run) == SumSeq([i \in DOMAIN outputs[run] |-> Len(outputs[run][i])])
NumConverted(run) == Cardinality({i \in DOMAIN convLog[run] : convLog[run][i].result.ok})

\* C8: the assembler fails, with no FinalExample for the record, when the
\* record has more than 26 choices or fewer than 2 (none included).
C8_BadChoiceCountFails ==
    /\ \A w \in ConvEntries : BadChoices(Entry(w).record) => ~Entry(w).result.ok
    /\ \A run \in Runs : cpc[run] # "wait" => NumWritten(run) = NumConverted(run)

\* C8 witness: a run that failed on a record with 27 choices after it had
\* converted another record.
C8_Witness ==
    \E w \in ConvEntries :
        /\ w[2] = 2
        /\ Has(Entry(w).record, "choices")
        /\ Len(Entry(w).record.choices) = 27
        /\ ~Entry(w).result.ok
        /\ NumWritten(w[1]) = 1

Malformed(record) ==
    \/ ~Has(record, "choices")
    \/ Len(record.choices) < 2
    \/ ~Has(record, "image")
    \/ ~Has(record, "question")
    \/ ~Has(record, "source_id")

Labels(entries) == {entries[i][1] : i \in DOMAIN entries}
Boxes(entries) == {entries[i][2] : i \in DOMAIN entries}
\* How many entries of the list carry this box.
BoxCount(entries, box) == Cardinality({i \in DOMAIN entries : entries[i][2] = box})

SameBoxMultiset(a, b) ==
    /\ Len(a) = Len(b)
    /\ \A box \in Boxes(a) \cup Boxes(b) : BoxCount(a, box) = BoxCount(b, box)

\* The variant's entries are the target's entries in some order, box by box,
\* and under that correspondence at least one entry has another label.
RelabelsSomeEntry(target, variant) ==
    \E p \in Perms(Len(target)) :
       /\ \A i \in DOMAIN variant : variant[i][2] = target[p[i]][2]
       /\ \E i \in DOMAIN variant : variant[i][1] # target[p[i]][1]

BoxesPairwiseDistinct(entries) ==
    \A i, j \in DOMAIN entries : i # j => entries[i][2] # entries[j][2]

\* C11: when the target holds at least 2 distinct labels, every label-swap
\* variant keeps the multiset of boxes of the target and gives at least one
\* of the target's entries a label it did not have; when no box occurs twice
\* in the target this makes the variant's Signature differ from the target's.
C11_SwapKeepsBoxesChangesLabel ==
    (kpc = "done" /\ Cardinality(Labels(kin)) >= 2) =>
       /\ SameBoxMultiset(kin, kout)
       /\ RelabelsSomeEntry(kin, kout)
       /\ BoxesPairwiseDistinct(kin) => _signature(kout) # _signature(kin)

\* A target of four entries came back with every entry relabelled, however
\* its boxes are matched with the target's: two pairs were swapped.
C11_Witness ==
    /\ kpc = "done"
    /\ Len(kin) = 4
    /\ Cardinality(Labels(kin)) >= 2
    /\ SameBoxMultiset(kin, kout)
    /\ \A p \in Perms(4) :
          (\A i \in 1..4 : kout[i][2] = kin[p[i]][2])
             => \A i \in 1..4 : kout[i][1] # kin[p[i]][1]

(***************************************************************************)
(* Claims about the multi-category eligibility gate.                       *)
(***************************************************************************)
\* The labels of the record that have at least one box.
BoxedLabels(data) ==
    {data.objs[i].name : i \in {k \in DOMAIN data.objs : data.objs[k].bboxes # <<>>}}

\* C12: the multi-category gate returns true if and only if the record has at
\* least two labels with at least one box each, whatever num_objs says and
\* also when some label has no box.
C12_GateIffTwoBoxedLabels ==
    kpc = "done" => (kout <=> Cardinality(BoxedLabels(kin)) >= 2)

(***************************************************************************)
(* C13.  The questions of the single-box and multi-box-same-label          *)
(* formatters.                                                             *)
(***************************************************************************)
\* A choice of either formatter as a list of boxes: the single-box formatter
\* returns one box per choice, the other a list of boxes.
BoxList(choice) == IF skind = "single" THEN <<choice>> ELSE choice
BoxSet(choice) == Range(BoxList(choice))

\* C13: in every question returned by the single-box and the
\* multi-box-same-label formatter, the three distractors have as many boxes as
\* the target, and the four choices are pairwise different as sets of boxes
\* (so no distractor is the target, and no two distractors are the same).
C13_BoxBundlesDistinct ==
    spc = "done" =>
        /\ Len(schoices) = 4
        /\ \A k \in 2..4 : Len(BoxList(schoices[k])) = Len(BoxList(schoices[1]))
        /\ \A i, j \in 1..4 : i # j => BoxSet(schoices[i]) # BoxSet(schoices[j])

(***************************************************************************)
(* C15.  Termination of the padding.                                       *)
(***************************************************************************)
\* random_bbox returns on some draw.
SomeDrawReturns == \E draw \in RandomBboxDraws : RandomBboxReturn(draw)

\* C15: formatting a single-box or multi-box-same-label question terminates
\* for every target box in [0,1]^4: whenever the padding waits for random_bbox,
\* some draw gives a box random_bbox returns, so that re-drawing ends and the
\* candidates reach 8 after finitely many draws.
C15_PaddingCanReturn ==
    (spc \in {"pad", "partial_fill", "full"} /\ scall # NoCall) => ENABLED SomeDrawReturns

(***************************************************************************)
(* C17.  The Signature of the formatters that deduplicate.                 *)
(***************************************************************************)
\* C17: in every formatter that deduplicates, two answer choices that hold the
\* same labels and boxes, equal after rounding to 3 decimals, in a different
\* order have equal Signatures, and the second is rejected as a duplicate once
\* the first is recorded.
C17_SignatureIgnoresOrderAndRounding ==
    kpc = "done" => (kout.sig_a = kout.sig_b /\ kout.added = <<>>)

(***************************************************************************)
(* C14.  When the allocator's pass stops.                                  *)
(***************************************************************************)
QuotasMet == \A name \in SpecNames : counts[name] >= targets[name]

SumCounts == SumSeq([i \in DOMAIN formatter_specs |-> counts[formatter_specs[i]]])
LinesWritten == SumSeq([i \in DOMAIN formatter_specs |-> Len(handles[formatter_specs[i]])])

\* No type accepts the record: each type's quota is met or its gate refuses.
NoTypeAccepts(data, draw) ==
    \A name \in SpecNames :
        counts[name] >= targets[name] \/ ~check_eligible(name, data, draw)

\* C19: in every reachable state of the pass each type's count is at most its
\* target, the number of consumed keys equals the sum of the counts and equals
\* the number of lines written to the output files; and a line whose record no
\* type accepts leaves counts, consumed keys and output files unchanged.
C19_CountsKeysLinesAgree ==
    /\ [](apc # "idle" =>
            /\ \A name \in SpecNames : counts[name] <= targets[name]
            /\ Cardinality(used_items) = SumCounts
            /\ SumCounts = LinesWritten
            /\ \A name \in SpecNames : Len(handles[name]) = counts[name])
    /\ [][(nread' = nread + 1
             /\ NoTypeAccepts(assignLog'[nread'].data, assignLog'[nread'].draw)) =>
            /\ counts' = counts /\ used_items' = used_items /\ handles' = handles]_vars

\* A record that no type accepted was read after some line had been written.
C19_Witness ==
    /\ apc = "loop"
    /\ SumCounts >= 1
    /\ \E i \in DOMAIN assignLog :
          /\ ~assignLog[i].skipped
          /\ assignLog[i].assigned = None
          /\ SumSeq([k \in DOMAIN formatter_specs |-> assignLog[i].before[formatter_specs[k]]]) >= 1

(***************************************************************************)
(* C18.  The lettered options.                                             *)
(***************************************************************************)
\* How often the text occurs in the list.
TextCount(texts, t) == Cardinality({i \in DOMAIN texts : texts[i] = t})
OptionTexts(option_pairs) == [pos \in DOMAIN option_pairs |-> option_pairs[pos][2]]

\* C18: for every list of n choices with 2 <= n <= 26, the lettered options
\* are a permutation of the input choices (each input choice appears as often
\* as in the input, so exactly once when the choices are distinct), and the
\* option at shuffled position k carries the k-th letter of the alphabet: the
\* letters are exactly the first n letters, in order, each used once.
C18_OptionsArePermutation ==
    (kpc = "done" /\ Len(kin.choices) >= 2 /\ Len(kin.choices) <= 26) =>
        /\ kout.ok
        /\ Len(kout.option_pairs) = Len(kin.choices)
        /\ \A t \in Range(kin.choices) \cup Range(OptionTexts(kout.option_pairs)) :
              TextCount(OptionTexts(kout.option_pairs), t) = TextCount(kin.choices, t)
        /\ \A pos \in DOMAIN kout.option_pairs :
              kout.option_pairs[pos][1] = OPTION_LETTERS[pos]

\* 26 choices were lettered A to Z in an order that is not the input's.
C18_Witness ==
    /\ kpc = "done"
    /\ Len(kin.choices) = 26
    /\ kout.ok
    /\ kout.option_pairs[26][1] = "Z"
    /\ OptionTexts(kout.option_pairs) # kin.choices

(***************************************************************************)
(* C16.  The order and the budgets of the cascade's stages.                *)
(***************************************************************************)
\* The four stages: label-swap/mutation, gentle fallback, geometric
\* escalation, forced escalation.  format rests at one of them exactly when it
\* is about to make an attempt of that stage.
CascadeStages == {"swap_mutate", "gentle", "escalate", "heavy"}
\* The delta steps 0.12, 0.16, 0.2, 0.24.
DeltaSteps == {1200, 1600, 2000, 2400}

\* C16: the cascade runs its stages in the order label-swap/mutation, gentle
\* fallback, geometric escalation, forced escalation and never goes back to an
\* earlier one; a stage makes an attempt only while fewer than 3 distractors,
\* pairwise different in Signature, are collected; and the attempts of a stage
\* never exceed its budget: 300, 100, one per delta step from 0.12 to 0.24 in
\* steps of 0.04 (each step tried at most once, in increasing order), and 20.
C16_StagesInOrderWithinBudget ==
    /\ [][StageIndex(fpc') >= StageIndex(fpc)]_vars
    /\ [](fpc \in CascadeStages =>
            /\ Len(distractors) < 3
            /\ Cardinality({_signature(distractors[i]) : i \in DOMAIN distractors})
                 = Len(distractors))
    /\ [](/\ fpc = "swap_mutate" => attempts < MainAttempts
          /\ fpc = "gentle" => attempts < GentleAttempts
          /\ fpc = "escalate" => force_delta.ticks \in DeltaSteps
          /\ fpc = "heavy" => attempts < HeavyAttempts)
    /\ [][(fpc \in CascadeStages /\ fpc' = fpc) =>
            IF fpc = "escalate" THEN force_delta'.ticks = force_delta.ticks + 400
            ELSE attempts' = attempts + 1]_vars

\* The four stages ran one after the other, each to the end of its budget:
\* the forced escalation is about to make its 20th attempt with fewer than 3
\* distractors collected.
C16_Witness ==
    /\ fpc = "heavy"
    /\ attempts = HeavyAttempts - 1
    /\ Len(distractors) < 3

====
